---- MODULE Spec2Model ----
(***************************************************************************)
(* A model of the Merkle Patricia Trie library: the RLP wire codec         *)
(* (rlp_encoding.rs), the compact path codec (path.rs), the in-memory      *)
(* builder (builder.rs) and the stateless proof verifier (mpt.rs).         *)
(*                                                                         *)
(* Bytes are integers 0..255, byte strings are sequences of bytes, nibbles *)
(* are integers 0..15.  Rust slices are 0-based and half-open; Slice(s,a,b) *)
(* is s[a..b].  Option<T> is a sequence of length 0 (None) or 1 (Some).    *)
(* A Rust panic is an explicit outcome of the operator that can raise it.  *)
(***************************************************************************)
EXTENDS Integers, Sequences, FiniteSets, TLC

\* ------------------------------------------------------------------------
\* Bounds of the model
\* ------------------------------------------------------------------------

\* Number of insert calls explored from a fresh builder.
MaxInserts == 3

\* Number of insert calls of the longer runs over fewer keys and values.
MaxDeepInserts == 4

\* Length of the node bodies handed to verify_proof directly.
MaxBodyLen == 3

\* ------------------------------------------------------------------------
\* Slices and options
\* ------------------------------------------------------------------------

Slice(s, a, b) == SubSeq(s, a + 1, b)

None == << >>

Some(x) == << x >>

IsSome(o) == Len(o) = 1

Min(a, b) == IF a < b THEN a ELSE b

\* a.starts_with(p) on slices
StartsWith(a, p) == Len(p) <= Len(a) /\ Slice(a, 0, Len(p)) = p

Zeros(n) == [i \in 1..n |-> 0]

RECURSIVE Concat(_)
\* payload.extend_from_slice(item) over all items
Concat(items) ==
    IF Len(items) = 0 THEN << >>
    ELSE Concat(SubSeq(items, 1, Len(items) - 1)) \o items[Len(items)]

\* ------------------------------------------------------------------------
\* Digest: Keccak-256 (the sha3 crate's Keccak256: the sponge over
\* Keccak-f[1600] with a rate of 136 bytes, the padding byte 0x01 and an
\* output of 32 bytes).  The state is a sequence of 200 bytes: byte k of lane
\* x + 5y (lowest byte first) is at 8 * (x + 5y) + k + 1.
\* ------------------------------------------------------------------------

HashLen == 32

RECURSIVE XorBits(_, _, _)
\* a ^ b on n-bit numbers
XorBits(a, b, n) ==
    IF n = 0 THEN 0
    ELSE ((a + b) % 2) + 2 * XorBits(a \div 2, b \div 2, n - 1)

RECURSIVE AndBits(_, _, _)
\* a & b on n-bit numbers
AndBits(a, b, n) ==
    IF n = 0 THEN 0
    ELSE ((a % 2) * (b % 2)) + 2 * AndBits(a \div 2, b \div 2, n - 1)

\* a ^ b on bytes, tabulated: XorByte[a + 1][b + 1]
XorByte ==
    << >> \o [a \in 1..256 |-> << >> \o [b \in 1..256 |-> XorBits(a - 1, b - 1, 8)]]

\* a & b on bytes, tabulated: AndByte[a + 1][b + 1]
AndByte ==
    << >> \o [a \in 1..256 |-> << >> \o [b \in 1..256 |-> AndBits(a - 1, b - 1, 8)]]

Xor(a, b) == XorByte[a + 1][b + 1]

\* theta, the column parities: C[x] = A[x,0] ^ A[x,1] ^ A[x,2] ^ A[x,3] ^ A[x,4]
ThetaC(s) ==
    << >> \o [i \in 1..40 |->
        Xor(Xor(Xor(Xor(s[i], s[i + 40]), s[i + 80]), s[i + 120]), s[i + 160])]

\* the position in C of byte k of lane x: 8 * x + k + 1
ColumnByte(x, k) == 8 * (x % 5) + (k % 8) + 1

\* theta: D[x] = C[x - 1] ^ rotate_left(C[x + 1], 1)
ThetaD(c) ==
    << >> \o [i \in 1..40 |->
        Xor(c[ColumnByte(((i - 1) \div 8) + 4, i - 1)],
            ((c[ColumnByte(((i - 1) \div 8) + 1, i - 1)] * 2) % 256)
            + (c[ColumnByte(((i - 1) \div 8) + 1, i + 6)] \div 128))]

\* theta: A[x,y] ^= D[x]
ThetaApply(s, d) == << >> \o [i \in 1..200 |-> Xor(s[i], d[((i - 1) % 40) + 1])]

Theta(s) == ThetaApply(s, ThetaD(ThetaC(s)))

\* rho: the rotation of lane x + 5y, at x + 5y + 1
RhoOffset ==
    << 0, 1, 62, 28, 27, 36, 44, 6, 55, 20, 3, 10, 43, 25, 39, 41, 45, 15, 21, 8, 18, 2, 61, 56, 14 >>

\* pi: B[y, 2x + 3y] = A[x, y]; the lane that lane x + 5y of B comes from
PiSource(lane) == ((3 * (lane \div 5) + (lane % 5)) % 5) + 5 * (lane % 5)

\* 2^n for n in 0..8
Pow2(n) == << 1, 2, 4, 8, 16, 32, 64, 128, 256 >>[n + 1]

\* rho and pi, byte i of B: the rotated source lane takes the high bits of
\* the byte from its byte RhoHigh[i], shifted up by RhoShift[i] bits, and the
\* low bits from the byte below, RhoLow[i]
RhoShift ==
    << >> \o [i \in 1..200 |-> RhoOffset[PiSource((i - 1) \div 8) + 1] % 8]

RhoHigh ==
    << >> \o [i \in 1..200 |->
        8 * PiSource((i - 1) \div 8)
        + (((i - 1) + 64 - (RhoOffset[PiSource((i - 1) \div 8) + 1] \div 8)) % 8) + 1]

RhoLow ==
    << >> \o [i \in 1..200 |->
        8 * PiSource((i - 1) \div 8)
        + (((i - 1) + 63 - (RhoOffset[PiSource((i - 1) \div 8) + 1] \div 8)) % 8) + 1]

RhoPi(s) ==
    << >> \o [i \in 1..200 |->
        ((s[RhoHigh[i]] * Pow2(RhoShift[i])) % 256)
        + (s[RhoLow[i]] \div Pow2(8 - RhoShift[i]))]

\* the position of byte i's counterpart in the lane n places further along
\* the row (x + n mod 5)
RowByte(i, n) == IF (((i - 1) \div 8) % 5) + n >= 5 THEN i + 8 * n - 40 ELSE i + 8 * n

\* chi: A[x,y] = B[x,y] ^ (~B[x+1,y] & B[x+2,y])
Chi(s) ==
    << >> \o [i \in 1..200 |->
        Xor(s[i], AndByte[256 - s[RowByte(i, 1)]][s[RowByte(i, 2)] + 1])]

\* the round constants, lowest byte first
RoundConstant ==
    << << 1, 0, 0, 0, 0, 0, 0, 0 >>,
       << 130, 128, 0, 0, 0, 0, 0, 0 >>,
       << 138, 128, 0, 0, 0, 0, 0, 128 >>,
       << 0, 128, 0, 128, 0, 0, 0, 128 >>,
       << 139, 128, 0, 0, 0, 0, 0, 0 >>,
       << 1, 0, 0, 128, 0, 0, 0, 0 >>,
       << 129, 128, 0, 128, 0, 0, 0, 128 >>,
       << 9, 128, 0, 0, 0, 0, 0, 128 >>,
       << 138, 0, 0, 0, 0, 0, 0, 0 >>,
       << 136, 0, 0, 0, 0, 0, 0, 0 >>,
       << 9, 128, 0, 128, 0, 0, 0, 0 >>,
       << 10, 0, 0, 128, 0, 0, 0, 0 >>,
       << 139, 128, 0, 128, 0, 0, 0, 0 >>,
       << 139, 0, 0, 0, 0, 0, 0, 128 >>,
       << 137, 128, 0, 0, 0, 0, 0, 128 >>,
       << 3, 128, 0, 0, 0, 0, 0, 128 >>,
       << 2, 128, 0, 0, 0, 0, 0, 128 >>,
       << 128, 0, 0, 0, 0, 0, 0, 128 >>,
       << 10, 128, 0, 0, 0, 0, 0, 0 >>,
       << 10, 0, 0, 128, 0, 0, 0, 128 >>,
       << 129, 128, 0, 128, 0, 0, 0, 128 >>,
       << 128, 128, 0, 0, 0, 0, 0, 128 >>,
       << 1, 0, 0, 128, 0, 0, 0, 0 >>,
       << 8, 128, 0, 128, 0, 0, 0, 128 >> >>

\* iota: A[0,0] ^= RC[r]
Iota(s, rc) == << >> \o [i \in 1..200 |-> IF i <= 8 THEN Xor(s[i], rc[i]) ELSE s[i]]

Round(s, r) == Iota(Chi(RhoPi(Theta(s))), RoundConstant[r])

RECURSIVE KeccakF(_, _)
\* Keccak-f[1600]: rounds r..24 applied to s (the test of Len(s) has each
\* round evaluated before the next is entered)
KeccakF(s, r) ==
    IF r > 24 \/ Len(s) # 200 THEN s ELSE KeccakF(Round(s, r), r + 1)

\* the rate of Keccak-256 in bytes
Rate == 136

\* the number of blocks of the padded input
Blocks(data) == (Len(data) \div Rate) + 1

\* byte i of the padded input: data, then 0x01, zeros, and 0x80 on the last
\* byte of the last block
PadByte(data, i) ==
    IF i <= Len(data) THEN data[i]
    ELSE (IF i = Len(data) + 1 THEN 1 ELSE 0)
         + (IF i = Rate * Blocks(data) THEN 128 ELSE 0)

\* the state with block n of the padded input xored into its first Rate bytes
Absorb(s, data, n) ==
    << >> \o [i \in 1..200 |->
        IF i <= Rate THEN Xor(s[i], PadByte(data, Rate * (n - 1) + i)) ELSE s[i]]

RECURSIVE Sponge(_, _, _, _)
\* blocks lo..hi absorbed into s, Keccak-f after each (the range is halved so
\* that long inputs do not nest one evaluation per block)
Sponge(s, data, lo, hi) ==
    IF lo = hi THEN KeccakF(Absorb(s, data, lo), 1)
    ELSE Sponge(Sponge(s, data, lo, (lo + hi) \div 2), data, ((lo + hi) \div 2) + 1, hi)

\* Keccak256::new(), update(data), finalize()
Keccak256(data) ==
    SubSeq(Sponge(<< >> \o [i \in 1..200 |-> 0], data, 1, Blocks(data)), 1, HashLen)

\* The digests of the node bodies that the runs of this module hash,
\* tabulated: every entry is Keccak256 of its key.
KnownDigests ==
    (
     (
      (
       (
        (
         (
          (
           (
            (
             (<< 194, 32, 5 >>
              :> << 210, 27, 58, 26, 218, 153, 135, 229, 14, 43, 77, 200, 5, 190, 75, 234, 140, 228, 69, 229, 111, 32, 255, 21,
                    54, 24, 142, 219, 30, 242, 139, 192 >>)
             @@
             (<< 194, 32, 7 >>
              :> << 211, 102, 187, 17, 52, 83, 109, 168, 35, 25, 170, 198, 86, 30, 155, 113, 162, 93, 203, 136, 140, 57, 89, 89,
                    24, 118, 177, 223, 169, 198, 68, 169 >>)
            )
            @@
            (
             (<< 194, 32, 128 >>
              :> << 249, 190, 130, 143, 214, 117, 37, 60, 46, 62, 205, 255, 67, 121, 222, 186, 180, 89, 243, 118, 183, 85, 79, 172,
                    25, 55, 71, 198, 118, 241, 15, 10 >>)
             @@
             (<< 194, 48, 7 >>
              :> << 136, 58, 237, 11, 149, 17, 240, 222, 32, 228, 111, 46, 3, 168, 105, 233, 138, 64, 228, 140, 206, 254, 78, 217,
                    164, 212, 89, 247, 93, 114, 103, 35 >>)
            )
           )
           @@
           (
            (
             (<< 194, 48, 128 >>
              :> << 190, 205, 104, 120, 92, 221, 156, 214, 11, 68, 133, 149, 172, 204, 40, 16, 12, 119, 248, 181, 61, 201, 4, 126,
                    179, 246, 230, 76, 125, 128, 177, 221 >>)
             @@
             (<< 194, 49, 5 >>
              :> << 95, 194, 23, 20, 254, 212, 80, 66, 103, 185, 235, 167, 70, 143, 91, 104, 109, 206, 5, 237, 163, 196, 136, 67,
                    31, 200, 185, 226, 147, 120, 29, 0 >>)
            )
            @@
            (
             (<< 194, 49, 7 >>
              :> << 133, 82, 84, 216, 5, 105, 31, 91, 103, 32, 52, 31, 98, 222, 136, 31, 22, 32, 54, 158, 200, 181, 118, 5,
                    146, 141, 10, 63, 222, 248, 188, 86 >>)
             @@
             (
              (<< 194, 49, 128 >>
               :> << 252, 200, 250, 51, 178, 109, 219, 130, 17, 30, 218, 89, 16, 96, 19, 17, 215, 227, 90, 23, 197, 238, 130, 57,
                     148, 235, 13, 34, 195, 110, 185, 165 >>)
              @@
              (<< 194, 50, 128 >>
               :> << 242, 50, 67, 218, 202, 254, 205, 15, 37, 145, 187, 225, 179, 27, 255, 52, 30, 30, 41, 103, 248, 178, 220, 143,
                     138, 24, 6, 242, 214, 213, 131, 237 >>)
             )
            )
           )
          )
          @@
          (
           (
            (
             (<< 196, 17, 194, 49, 5 >>
              :> << 161, 180, 6, 253, 94, 144, 189, 64, 93, 46, 238, 141, 242, 97, 114, 81, 203, 242, 255, 76, 33, 186, 59, 21,
                    155, 232, 197, 22, 110, 160, 186, 18 >>)
             @@
             (<< 196, 17, 194, 49, 7 >>
              :> << 57, 10, 251, 93, 213, 234, 210, 144, 150, 198, 97, 68, 53, 140, 143, 22, 178, 156, 15, 79, 4, 104, 12, 169,
                    86, 157, 0, 164, 6, 131, 239, 159 >>)
            )
            @@
            (
             (<< 196, 17, 194, 49, 128 >>
              :> << 200, 39, 102, 225, 176, 106, 220, 242, 128, 243, 117, 187, 130, 139, 104, 168, 254, 193, 114, 66, 143, 76, 60, 129,
                    18, 39, 47, 148, 103, 187, 31, 51 >>)
             @@
             (
              (<< 196, 49, 130, 5, 7 >>
               :> << 49, 13, 141, 187, 5, 216, 170, 152, 49, 82, 164, 164, 116, 143, 201, 53, 103, 101, 91, 77, 206, 242, 84, 46,
                     199, 225, 140, 179, 221, 112, 224, 207 >>)
              @@
              (<< 196, 130, 32, 16, 7 >>
               :> << 28, 205, 229, 230, 141, 28, 6, 180, 4, 185, 181, 165, 118, 126, 19, 43, 217, 123, 95, 212, 164, 143, 126, 205,
                     193, 228, 84, 241, 101, 194, 66, 102 >>)
             )
            )
           )
           @@
           (
            (
             (<< 196, 130, 32, 16, 128 >>
              :> << 132, 229, 143, 180, 43, 225, 113, 139, 21, 101, 104, 10, 1, 10, 205, 220, 166, 215, 206, 239, 230, 82, 172, 10,
                    179, 225, 143, 178, 225, 243, 122, 124 >>)
             @@
             (<< 196, 130, 32, 17, 5 >>
              :> << 45, 234, 215, 248, 210, 92, 170, 18, 184, 40, 141, 141, 83, 163, 14, 64, 169, 223, 104, 163, 95, 246, 36, 137,
                    15, 166, 33, 32, 168, 196, 26, 174 >>)
            )
            @@
            (
             (<< 196, 130, 32, 17, 7 >>
              :> << 133, 91, 225, 140, 224, 190, 115, 161, 244, 36, 216, 39, 113, 18, 199, 76, 17, 0, 183, 62, 123, 60, 41, 253,
                    46, 190, 54, 18, 35, 66, 204, 74 >>)
             @@
             (
              (<< 196, 130, 32, 17, 128 >>
               :> << 47, 152, 163, 43, 79, 128, 39, 97, 255, 197, 212, 89, 55, 50, 121, 117, 162, 120, 195, 194, 109, 101, 6, 213,
                     169, 177, 130, 61, 206, 106, 148, 102 >>)
              @@
              (<< 196, 130, 32, 18, 5 >>
               :> << 142, 76, 28, 37, 174, 169, 208, 238, 143, 141, 91, 72, 248, 62, 124, 163, 45, 234, 98, 113, 176, 134, 184, 56,
                     26, 110, 232, 70, 18, 46, 98, 155 >>)
             )
            )
           )
          )
         )
         @@
         (
          (
           (
            (
             (<< 196, 130, 32, 18, 7 >>
              :> << 136, 66, 181, 102, 161, 165, 181, 51, 203, 128, 65, 206, 21, 234, 187, 127, 86, 87, 66, 1, 144, 24, 251, 92,
                    232, 154, 229, 97, 72, 199, 81, 84 >>)
             @@
             (<< 196, 130, 32, 18, 128 >>
              :> << 206, 115, 105, 252, 164, 242, 185, 218, 253, 100, 66, 146, 98, 241, 170, 123, 224, 234, 56, 190, 173, 126, 195, 89,
                    80, 156, 159, 189, 35, 4, 84, 218 >>)
            )
            @@
            (
             (<< 196, 130, 32, 32, 7 >>
              :> << 23, 120, 17, 244, 148, 3, 242, 240, 173, 229, 232, 41, 128, 113, 152, 46, 73, 136, 186, 171, 48, 186, 227, 17,
                    86, 150, 228, 80, 4, 145, 248, 80 >>)
             @@
             (
              (<< 196, 130, 32, 32, 128 >>
               :> << 240, 72, 1, 142, 131, 251, 28, 168, 37, 234, 64, 245, 248, 18, 251, 5, 53, 79, 144, 196, 74, 144, 174, 61,
                     70, 27, 30, 54, 55, 43, 113, 93 >>)
              @@
              (<< 196, 130, 49, 17, 7 >>
               :> << 173, 100, 227, 164, 177, 4, 232, 227, 128, 186, 221, 104, 149, 36, 101, 82, 15, 240, 187, 119, 79, 48, 97, 250,
                     117, 5, 95, 195, 56, 254, 212, 94 >>)
             )
            )
           )
           @@
           (
            (
             (<< 196, 130, 49, 17, 128 >>
              :> << 185, 148, 2, 217, 78, 138, 20, 229, 253, 168, 134, 125, 36, 75, 231, 25, 33, 138, 81, 112, 124, 82, 87, 144,
                    68, 0, 190, 164, 25, 180, 197, 143 >>)
             @@
             (<< 196, 130, 49, 18, 7 >>
              :> << 130, 33, 177, 41, 143, 150, 32, 247, 159, 237, 239, 78, 25, 213, 167, 210, 205, 191, 34, 249, 214, 50, 112, 39,
                    83, 90, 165, 46, 162, 154, 20, 237 >>)
            )
            @@
            (
             (<< 196, 130, 50, 17, 7 >>
              :> << 66, 182, 240, 133, 228, 12, 238, 52, 51, 53, 90, 111, 131, 193, 55, 108, 45, 119, 195, 171, 143, 94, 236, 210,
                    158, 6, 160, 141, 192, 185, 117, 118 >>)
             @@
             (
              (<< 197, 17, 131, 194, 49, 5 >>
               :> << 179, 70, 154, 153, 156, 42, 18, 169, 238, 162, 35, 190, 247, 16, 167, 61, 191, 240, 100, 42, 213, 148, 195, 10,
                     244, 90, 59, 250, 70, 138, 178, 12 >>)
              @@
              (<< 197, 17, 131, 194, 49, 7 >>
               :> << 212, 242, 172, 174, 85, 160, 161, 222, 131, 164, 243, 49, 186, 225, 12, 215, 207, 220, 159, 231, 17, 59, 138, 193,
                     52, 198, 192, 156, 76, 29, 192, 28 >>)
             )
            )
           )
          )
          @@
          (
           (
            (
             (<< 197, 17, 131, 194, 49, 128 >>
              :> << 236, 235, 111, 88, 193, 119, 160, 247, 184, 15, 132, 244, 234, 134, 218, 66, 178, 135, 74, 18, 58, 161, 240, 194,
                    176, 190, 80, 99, 239, 174, 123, 149 >>)
             @@
             (<< 197, 131, 32, 17, 17, 7 >>
              :> << 4, 176, 194, 177, 217, 197, 82, 63, 127, 209, 231, 243, 187, 185, 135, 208, 175, 84, 96, 137, 145, 244, 157, 234,
                    198, 94, 157, 41, 127, 101, 55, 97 >>)
            )
            @@
            (
             (<< 197, 131, 32, 17, 17, 128 >>
              :> << 245, 167, 171, 172, 237, 97, 211, 28, 145, 220, 46, 187, 163, 246, 60, 57, 153, 104, 53, 163, 192, 60, 100, 38,
                    65, 126, 206, 140, 56, 202, 157, 107 >>)
             @@
             (
              (<< 197, 131, 32, 17, 18, 7 >>
               :> << 58, 186, 246, 122, 32, 123, 103, 37, 90, 195, 22, 6, 57, 88, 178, 59, 207, 195, 17, 2, 208, 233, 211, 215,
                     234, 59, 150, 36, 155, 184, 252, 85 >>)
              @@
              (<< 197, 131, 32, 18, 17, 7 >>
               :> << 87, 83, 74, 191, 114, 201, 166, 61, 25, 219, 235, 109, 209, 88, 213, 163, 121, 55, 211, 214, 168, 251, 116, 53,
                     129, 21, 42, 229, 128, 65, 128, 110 >>)
             )
            )
           )
           @@
           (
            (
             (<< 197, 131, 32, 33, 17, 7 >>
              :> << 90, 159, 129, 144, 234, 115, 220, 160, 138, 61, 101, 106, 168, 131, 244, 0, 29, 125, 35, 131, 229, 2, 74, 203,
                    47, 176, 81, 248, 152, 209, 88, 241 >>)
             @@
             (<< 198, 17, 196, 49, 130, 5, 7 >>
              :> << 84, 115, 53, 254, 180, 53, 205, 114, 8, 252, 255, 61, 150, 91, 28, 65, 35, 63, 252, 116, 110, 166, 202, 108,
                    90, 104, 27, 114, 148, 129, 131, 68 >>)
            )
            @@
            (
             (<< 199, 17, 133, 196, 49, 130, 5, 7 >>
              :> << 12, 161, 135, 245, 97, 253, 212, 16, 98, 239, 10, 24, 198, 14, 23, 135, 29, 173, 47, 215, 246, 77, 161, 205,
                    238, 184, 169, 98, 172, 247, 159, 215 >>)
             @@
             (
              (<< 209, 128, 128, 128, 128, 128, 128, 128, 128, 128, 128, 128, 128, 128, 128, 128, 128, 128 >>
               :> << 190, 15, 68, 64, 226, 147, 164, 113, 96, 185, 177, 72, 212, 146, 18, 208, 97, 110, 197, 176, 167, 12, 153, 222,
                     155, 243, 101, 21, 213, 46, 9, 1 >>)
              @@
              (<< 211, 128, 194, 49, 5, 128, 128, 128, 128, 128, 128, 128, 128, 128, 128, 128, 128, 128, 128, 128 >>
               :> << 206, 251, 22, 221, 66, 5, 220, 33, 83, 119, 182, 76, 43, 213, 94, 68, 16, 81, 13, 108, 40, 47, 162, 135,
                     18, 184, 146, 88, 37, 188, 53, 128 >>)
             )
            )
           )
          )
         )
        )
        @@
        (
         (
          (
           (
            (
             (<< 211, 128, 194, 49, 7, 128, 128, 128, 128, 128, 128, 128, 128, 128, 128, 128, 128, 128, 128, 128 >>
              :> << 61, 187, 14, 161, 19, 166, 26, 121, 252, 25, 201, 188, 223, 111, 22, 220, 127, 143, 255, 240, 92, 21, 29, 252,
                    38, 71, 64, 201, 175, 160, 216, 227 >>)
             @@
             (<< 211, 128, 194, 49, 128, 128, 128, 128, 128, 128, 128, 128, 128, 128, 128, 128, 128, 128, 128, 128 >>
              :> << 45, 82, 221, 236, 165, 120, 137, 162, 105, 191, 176, 44, 13, 74, 82, 117, 148, 113, 189, 186, 136, 185, 122, 19,
                    38, 43, 183, 163, 58, 148, 85, 56 >>)
            )
            @@
            (
             (<< 212, 128, 131, 194, 49, 5, 128, 128, 128, 128, 128, 128, 128, 128, 128, 128, 128, 128, 128, 128, 128 >>
              :> << 196, 135, 59, 196, 47, 222, 160, 193, 204, 3, 65, 7, 1, 51, 5, 27, 41, 9, 218, 92, 145, 114, 204, 117,
                    245, 87, 58, 35, 248, 141, 36, 134 >>)
             @@
             (
              (<< 212, 128, 131, 194, 49, 7, 128, 128, 128, 128, 128, 128, 128, 128, 128, 128, 128, 128, 128, 128, 128 >>
               :> << 13, 74, 111, 104, 113, 251, 111, 97, 22, 156, 27, 180, 212, 110, 106, 85, 70, 81, 101, 200, 107, 128, 153, 244,
                     179, 197, 139, 89, 106, 227, 171, 225 >>)
              @@
              (<< 212, 128, 131, 194, 49, 128, 128, 128, 128, 128, 128, 128, 128, 128, 128, 128, 128, 128, 128, 128, 128 >>
               :> << 158, 218, 64, 251, 218, 236, 136, 216, 121, 36, 97, 26, 200, 102, 236, 140, 203, 169, 121, 230, 19, 247, 171, 18,
                     67, 157, 119, 39, 81, 54, 167, 46 >>)
             )
            )
           )
           @@
           (
            (
             (<< 213, 128, 196, 49, 130, 5, 7, 128, 128, 128, 128, 128, 128, 128, 128, 128, 128, 128, 128, 128, 128, 128 >>
              :> << 8, 222, 159, 160, 94, 40, 122, 55, 255, 26, 145, 215, 6, 194, 251, 58, 244, 122, 114, 176, 242, 247, 131, 161,
                    187, 220, 37, 131, 129, 156, 204, 63 >>)
             @@
             (<< 214, 128, 133, 196, 49, 130, 5, 7, 128, 128, 128, 128, 128, 128, 128, 128, 128, 128, 128, 128, 128, 128, 128 >>
              :> << 136, 43, 169, 250, 37, 192, 195, 119, 0, 242, 103, 77, 159, 33, 142, 234, 119, 117, 118, 80, 120, 175, 66, 91,
                    67, 225, 184, 131, 202, 9, 215, 146 >>)
            )
            @@
            (
             (<< 226, 17, 160, 0, 34, 134, 226, 133, 54, 29, 205, 106, 75, 190, 42, 228, 254, 91, 77, 4, 125, 26, 248, 50,
                 68, 59, 208, 212, 179, 174, 131, 73, 167, 55, 76 >>
              :> << 169, 30, 52, 37, 156, 197, 49, 152, 30, 126, 9, 76, 112, 238, 191, 177, 110, 190, 143, 40, 83, 205, 234, 236,
                    212, 74, 36, 137, 227, 59, 119, 230 >>)
             @@
             (
              (<< 226, 17, 160, 1, 189, 157, 160, 165, 125, 95, 123, 206, 29, 82, 95, 6, 58, 243, 119, 55, 60, 251, 39, 70,
                  119, 20, 21, 4, 97, 234, 2, 4, 201, 254, 243 >>
               :> << 78, 145, 110, 51, 81, 159, 141, 181, 215, 2, 96, 6, 216, 65, 193, 198, 18, 87, 25, 221, 74, 123, 242, 24,
                     116, 197, 183, 193, 85, 165, 206, 114 >>)
              @@
              (<< 226, 17, 160, 4, 44, 177, 185, 221, 159, 164, 37, 142, 252, 55, 87, 27, 20, 170, 46, 226, 176, 200, 213, 215,
                  169, 251, 61, 144, 111, 247, 233, 1, 252, 234, 214 >>
               :> << 140, 65, 250, 31, 87, 65, 122, 158, 138, 219, 5, 81, 49, 73, 44, 101, 194, 84, 240, 155, 216, 93, 5, 169,
                     230, 174, 5, 10, 3, 114, 155, 94 >>)
             )
            )
           )
          )
          @@
          (
           (
            (
             (<< 226, 17, 160, 4, 93, 71, 91, 116, 160, 146, 41, 231, 153, 250, 227, 64, 186, 230, 65, 215, 178, 20, 34, 37,
                 130, 22, 178, 17, 188, 74, 43, 151, 20, 169, 7 >>
              :> << 9, 129, 218, 84, 120, 254, 154, 124, 140, 203, 103, 37, 143, 224, 30, 174, 140, 75, 198, 167, 129, 219, 84, 184,
                    254, 219, 212, 216, 213, 57, 127, 161 >>)
             @@
             (<< 226, 17, 160, 4, 101, 235, 15, 164, 229, 124, 142, 211, 144, 221, 190, 173, 175, 105, 85, 168, 118, 48, 110, 253,
                 161, 194, 55, 228, 221, 235, 139, 155, 155, 202, 241 >>
              :> << 61, 57, 129, 236, 21, 206, 153, 190, 142, 49, 198, 152, 36, 52, 76, 90, 60, 132, 84, 10, 219, 83, 19, 175,
                    172, 212, 156, 41, 254, 195, 83, 43 >>)
            )
            @@
            (
             (<< 226, 17, 160, 6, 238, 172, 240, 109, 243, 88, 242, 131, 195, 235, 142, 214, 183, 249, 123, 47, 49, 254, 46, 147,
                 206, 19, 111, 14, 11, 61, 13, 168, 51, 58, 221 >>
              :> << 20, 65, 232, 41, 203, 222, 88, 188, 77, 144, 193, 1, 194, 151, 21, 82, 62, 236, 61, 60, 161, 149, 167, 65,
                    52, 167, 10, 188, 70, 248, 28, 231 >>)
             @@
             (
              (<< 226, 17, 160, 8, 7, 6, 50, 182, 143, 15, 151, 7, 130, 169, 29, 133, 120, 40, 19, 105, 86, 243, 48, 93,
                  2, 110, 74, 182, 197, 90, 221, 225, 107, 85, 240 >>
               :> << 26, 254, 6, 239, 232, 48, 227, 147, 48, 218, 32, 40, 239, 20, 187, 238, 30, 41, 43, 177, 238, 200, 49, 12,
                     102, 206, 143, 158, 159, 162, 237, 241 >>)
              @@
              (<< 226, 17, 160, 8, 127, 49, 164, 123, 135, 223, 143, 239, 42, 162, 80, 108, 54, 20, 77, 145, 249, 107, 62, 24,
                  228, 180, 62, 202, 193, 46, 52, 244, 244, 117, 41 >>
               :> << 95, 104, 216, 85, 44, 3, 12, 77, 18, 210, 249, 36, 111, 4, 250, 36, 140, 107, 108, 62, 204, 179, 129, 75,
                     88, 105, 241, 90, 243, 30, 240, 122 >>)
             )
            )
           )
           @@
           (
            (
             (<< 226, 17, 160, 8, 244, 231, 224, 70, 11, 187, 5, 67, 238, 151, 214, 147, 117, 139, 120, 57, 147, 22, 96, 98,
                 200, 78, 186, 126, 144, 184, 166, 9, 101, 147, 186 >>
              :> << 246, 225, 145, 97, 226, 126, 244, 9, 235, 160, 237, 143, 205, 154, 149, 52, 103, 84, 172, 184, 220, 220, 115, 99,
                    49, 48, 161, 66, 101, 104, 248, 231 >>)
             @@
             (<< 226, 17, 160, 9, 67, 103, 196, 106, 23, 141, 229, 233, 123, 62, 137, 68, 94, 219, 98, 121, 15, 112, 140, 111,
                 173, 224, 24, 57, 160, 44, 165, 104, 186, 238, 182 >>
              :> << 119, 123, 59, 4, 116, 167, 12, 71, 212, 125, 180, 122, 87, 229, 218, 52, 130, 48, 103, 45, 17, 111, 96, 7,
                    36, 159, 72, 154, 59, 241, 237, 53 >>)
            )
            @@
            (
             (<< 226, 17, 160, 10, 1, 195, 194, 40, 242, 63, 255, 250, 172, 29, 26, 149, 136, 97, 1, 24, 99, 160, 208, 158,
                 98, 232, 17, 189, 1, 205, 7, 157, 204, 163, 67 >>
              :> << 208, 181, 36, 182, 119, 19, 95, 107, 39, 233, 93, 241, 103, 32, 76, 59, 228, 53, 155, 187, 4, 136, 253, 215,
                    128, 153, 114, 96, 68, 192, 63, 28 >>)
             @@
             (
              (<< 226, 17, 160, 12, 35, 208, 227, 59, 200, 116, 99, 118, 9, 195, 80, 106, 15, 62, 230, 242, 114, 85, 202, 174,
                  152, 232, 231, 50, 161, 64, 227, 216, 157, 214, 0 >>
               :> << 211, 253, 191, 1, 102, 121, 198, 44, 170, 229, 1, 77, 84, 58, 231, 138, 248, 65, 213, 154, 174, 164, 65, 0,
                     111, 144, 179, 0, 97, 29, 236, 228 >>)
              @@
              (<< 226, 17, 160, 14, 7, 1, 54, 175, 112, 84, 167, 91, 134, 253, 183, 97, 191, 241, 124, 28, 230, 22, 87, 143,
                  203, 238, 231, 180, 34, 132, 59, 161, 101, 1, 217 >>
               :> << 154, 98, 32, 21, 22, 192, 160, 233, 255, 138, 211, 46, 29, 164, 19, 11, 114, 147, 240, 14, 92, 231, 22, 194,
                     59, 238, 220, 138, 249, 189, 210, 230 >>)
             )
            )
           )
          )
         )
         @@
         (
          (
           (
            (
             (<< 226, 17, 160, 16, 243, 117, 106, 173, 250, 101, 139, 249, 12, 8, 217, 201, 40, 208, 202, 149, 125, 132, 196, 253,
                 213, 63, 203, 2, 162, 89, 202, 119, 49, 121, 211 >>
              :> << 196, 103, 102, 117, 187, 254, 210, 251, 86, 207, 73, 84, 9, 236, 212, 177, 127, 122, 1, 156, 42, 172, 141, 151,
                    175, 136, 243, 45, 186, 147, 145, 56 >>)
             @@
             (<< 226, 17, 160, 16, 253, 203, 121, 174, 93, 178, 203, 138, 159, 70, 10, 74, 240, 191, 76, 115, 199, 84, 186, 23,
                 31, 233, 75, 221, 199, 151, 15, 29, 69, 113, 231 >>
              :> << 131, 255, 67, 86, 203, 220, 96, 36, 14, 233, 154, 6, 198, 87, 60, 245, 127, 180, 131, 181, 2, 35, 33, 244,
                    69, 253, 60, 118, 166, 217, 208, 80 >>)
            )
            @@
            (
             (<< 226, 17, 160, 17, 183, 9, 24, 94, 253, 240, 130, 166, 53, 85, 160, 104, 251, 53, 252, 1, 232, 177, 93, 84,
                 48, 211, 69, 184, 109, 43, 132, 225, 230, 25, 174 >>
              :> << 88, 225, 238, 156, 246, 37, 5, 53, 144, 250, 229, 187, 109, 41, 135, 61, 50, 87, 100, 86, 228, 39, 201, 15,
                    0, 96, 217, 3, 65, 108, 127, 171 >>)
             @@
             (
              (<< 226, 17, 160, 18, 33, 168, 73, 197, 170, 217, 168, 213, 41, 20, 220, 150, 234, 84, 235, 149, 33, 66, 210, 194,
                  209, 33, 173, 112, 88, 209, 0, 224, 216, 4, 107 >>
               :> << 190, 228, 6, 134, 148, 230, 98, 128, 172, 65, 168, 20, 46, 10, 5, 218, 60, 243, 174, 92, 88, 229, 72, 132,
                     62, 146, 171, 215, 60, 152, 195, 1 >>)
              @@
              (<< 226, 17, 160, 18, 217, 67, 203, 2, 212, 132, 28, 119, 149, 171, 163, 135, 177, 52, 241, 59, 27, 99, 188, 172,
                  205, 224, 177, 72, 45, 54, 71, 243, 179, 159, 79 >>
               :> << 35, 109, 32, 73, 84, 132, 29, 63, 15, 82, 168, 123, 3, 61, 89, 38, 133, 172, 166, 166, 252, 162, 53, 114,
                     189, 173, 240, 56, 230, 31, 198, 20 >>)
             )
            )
           )
           @@
           (
            (
             (<< 226, 17, 160, 20, 143, 27, 4, 120, 83, 2, 199, 146, 87, 189, 227, 157, 23, 42, 137, 152, 196, 19, 19, 92,
                 252, 30, 236, 120, 209, 91, 238, 84, 74, 182, 146 >>
              :> << 56, 22, 95, 253, 32, 171, 40, 84, 197, 115, 38, 60, 41, 237, 242, 3, 47, 234, 249, 173, 112, 218, 176, 239,
                    206, 11, 124, 227, 73, 132, 80, 64 >>)
             @@
             (<< 226, 17, 160, 20, 251, 121, 127, 228, 21, 236, 58, 185, 228, 172, 158, 34, 160, 165, 165, 194, 96, 70, 208, 153,
                 150, 249, 190, 240, 13, 233, 39, 189, 61, 180, 100 >>
              :> << 88, 171, 139, 177, 126, 193, 207, 47, 8, 124, 97, 64, 234, 168, 242, 206, 129, 189, 103, 142, 47, 198, 74, 28,
                    24, 116, 40, 146, 64, 60, 20, 55 >>)
            )
            @@
            (
             (<< 226, 17, 160, 21, 190, 134, 212, 83, 252, 181, 73, 179, 246, 225, 84, 6, 214, 88, 184, 169, 113, 207, 160, 154,
                 5, 143, 187, 12, 186, 235, 126, 211, 53, 244, 148 >>
              :> << 245, 137, 47, 170, 62, 199, 221, 201, 189, 31, 12, 148, 135, 44, 93, 16, 114, 92, 32, 79, 200, 13, 244, 174,
                    190, 59, 222, 148, 192, 51, 86, 241 >>)
             @@
             (
              (<< 226, 17, 160, 21, 198, 51, 11, 223, 3, 215, 104, 14, 110, 235, 14, 46, 131, 203, 80, 83, 180, 39, 86, 123,
                  198, 69, 140, 99, 185, 75, 46, 71, 190, 191, 191 >>
               :> << 99, 244, 99, 171, 154, 203, 208, 184, 179, 249, 24, 240, 242, 135, 64, 61, 41, 217, 215, 30, 128, 175, 73, 240,
                     202, 142, 10, 155, 173, 17, 224, 253 >>)
              @@
              (<< 226, 17, 160, 23, 71, 225, 123, 194, 232, 179, 207, 153, 229, 98, 221, 116, 4, 170, 88, 116, 172, 249, 26, 249,
                  160, 138, 115, 189, 225, 251, 242, 20, 249, 25, 102 >>
               :> << 115, 173, 238, 10, 138, 177, 43, 231, 11, 162, 224, 164, 225, 194, 237, 111, 247, 147, 161, 156, 170, 112, 1, 144,
                     208, 195, 96, 44, 33, 187, 37, 62 >>)
             )
            )
           )
          )
          @@
          (
           (
            (
             (<< 226, 17, 160, 24, 202, 145, 28, 23, 210, 243, 186, 211, 216, 231, 113, 155, 203, 133, 136, 240, 68, 182, 64, 219,
                 207, 218, 255, 70, 59, 255, 235, 199, 143, 148, 180 >>
              :> << 242, 97, 195, 99, 127, 30, 41, 190, 79, 77, 20, 100, 119, 128, 208, 113, 212, 87, 91, 176, 146, 8, 69, 4,
                    0, 44, 22, 149, 150, 125, 58, 230 >>)
             @@
             (<< 226, 17, 160, 24, 244, 135, 73, 127, 192, 175, 253, 250, 113, 151, 170, 182, 137, 40, 71, 108, 21, 36, 174, 126,
                 59, 35, 40, 88, 171, 98, 80, 67, 148, 109, 232 >>
              :> << 3, 57, 39, 219, 131, 116, 30, 212, 51, 79, 8, 38, 21, 64, 224, 68, 4, 89, 128, 18, 13, 235, 138, 193,
                    23, 47, 239, 100, 157, 217, 27, 112 >>)
            )
            @@
            (
             (<< 226, 17, 160, 25, 39, 2, 110, 88, 115, 121, 16, 228, 101, 56, 242, 53, 180, 211, 117, 103, 57, 134, 191, 73,
                 179, 56, 190, 86, 238, 48, 213, 61, 27, 53, 49 >>
              :> << 38, 217, 159, 28, 3, 96, 183, 34, 91, 120, 206, 37, 171, 26, 65, 247, 24, 55, 218, 70, 149, 112, 201, 155,
                    245, 173, 130, 56, 184, 53, 193, 181 >>)
             @@
             (
              (<< 226, 17, 160, 26, 17, 53, 240, 149, 18, 187, 89, 199, 30, 224, 161, 181, 221, 44, 31, 194, 78, 217, 29, 21,
                  12, 148, 253, 214, 105, 164, 209, 89, 254, 92, 146 >>
               :> << 237, 15, 200, 52, 222, 137, 130, 183, 102, 62, 185, 78, 197, 244, 202, 57, 74, 29, 109, 212, 212, 71, 140, 255,
                     130, 82, 172, 236, 186, 177, 110, 201 >>)
              @@
              (<< 226, 17, 160, 28, 24, 41, 172, 146, 115, 193, 171, 132, 44, 202, 171, 221, 128, 90, 195, 112, 64, 167, 205, 150,
                  6, 121, 164, 155, 211, 64, 188, 127, 89, 217, 134 >>
               :> << 71, 236, 155, 24, 64, 225, 198, 58, 155, 165, 138, 235, 6, 165, 242, 83, 214, 159, 183, 77, 138, 121, 74, 57,
                     186, 111, 224, 66, 101, 125, 188, 169 >>)
             )
            )
           )
           @@
           (
            (
             (<< 226, 17, 160, 29, 2, 181, 252, 196, 102, 90, 4, 138, 27, 44, 88, 58, 70, 41, 125, 108, 58, 64, 98, 212,
                 127, 228, 21, 42, 22, 171, 183, 36, 181, 252, 92 >>
              :> << 90, 108, 30, 37, 158, 194, 2, 67, 224, 116, 29, 149, 98, 153, 75, 39, 223, 182, 162, 238, 114, 46, 83, 74,
                    223, 103, 21, 182, 29, 250, 11, 163 >>)
             @@
             (<< 226, 17, 160, 29, 129, 239, 114, 91, 85, 90, 197, 173, 12, 17, 225, 98, 41, 199, 118, 127, 10, 148, 204, 20,
                 124, 135, 221, 97, 66, 191, 172, 119, 232, 107, 56 >>
              :> << 225, 31, 254, 49, 97, 246, 19, 234, 166, 177, 234, 10, 51, 121, 201, 80, 94, 163, 252, 88, 156, 125, 75, 225,
                    94, 122, 14, 63, 114, 145, 115, 105 >>)
            )
            @@
            (
             (<< 226, 17, 160, 30, 139, 210, 188, 133, 116, 65, 27, 190, 90, 178, 160, 244, 147, 76, 229, 84, 31, 19, 37, 56,
                 53, 33, 195, 180, 167, 68, 120, 207, 186, 46, 150 >>
              :> << 28, 249, 174, 28, 239, 28, 43, 29, 57, 57, 188, 178, 162, 49, 194, 155, 90, 7, 108, 207, 114, 57, 48, 106,
                    97, 145, 205, 179, 243, 47, 248, 215 >>)
             @@
             (
              (<< 226, 17, 160, 30, 248, 75, 216, 107, 145, 229, 93, 108, 87, 224, 179, 181, 39, 17, 190, 177, 126, 6, 187, 115,
                  191, 255, 91, 179, 53, 113, 206, 6, 247, 144, 151 >>
               :> << 139, 173, 82, 212, 183, 232, 229, 14, 94, 188, 176, 90, 161, 232, 198, 130, 252, 220, 128, 62, 84, 78, 192, 239,
                     198, 65, 7, 76, 56, 223, 179, 215 >>)
              @@
              (<< 226, 17, 160, 32, 165, 39, 70, 154, 114, 63, 60, 50, 157, 21, 119, 193, 90, 15, 67, 63, 188, 155, 70, 162,
                  217, 227, 117, 201, 255, 62, 143, 82, 58, 103, 172 >>
               :> << 155, 214, 179, 218, 252, 72, 27, 31, 104, 56, 200, 166, 141, 99, 229, 73, 182, 120, 71, 103, 164, 2, 234, 189,
                     140, 94, 175, 7, 143, 240, 187, 107 >>)
             )
            )
           )
          )
         )
        )
       )
       @@
       (
        (
         (
          (
           (
            (
             (<< 226, 17, 160, 37, 201, 240, 133, 230, 71, 191, 70, 222, 136, 196, 160, 138, 238, 166, 141, 244, 121, 240, 242, 128,
                 95, 18, 238, 31, 245, 152, 84, 245, 246, 137, 2 >>
              :> << 41, 154, 213, 160, 144, 215, 193, 121, 41, 46, 135, 124, 248, 100, 183, 53, 221, 155, 128, 57, 2, 79, 7, 99,
                    250, 96, 70, 56, 105, 237, 167, 187 >>)
             @@
             (<< 226, 17, 160, 38, 0, 20, 117, 104, 103, 216, 230, 79, 182, 49, 43, 34, 215, 138, 145, 165, 149, 245, 139, 204,
                 143, 6, 29, 47, 203, 168, 34, 0, 154, 55, 134 >>
              :> << 10, 148, 155, 231, 22, 202, 43, 8, 178, 133, 164, 230, 147, 229, 8, 193, 58, 6, 154, 212, 123, 172, 132, 149,
                    18, 44, 169, 208, 35, 49, 240, 87 >>)
            )
            @@
            (
             (<< 226, 17, 160, 41, 144, 191, 51, 101, 48, 90, 109, 138, 241, 192, 29, 80, 224, 231, 245, 222, 233, 23, 101, 231,
                 39, 252, 23, 20, 127, 190, 199, 10, 26, 23, 200 >>
              :> << 191, 173, 100, 130, 158, 1, 60, 163, 125, 17, 9, 21, 216, 152, 86, 75, 152, 218, 1, 15, 91, 85, 148, 229,
                    10, 30, 122, 23, 106, 145, 173, 229 >>)
             @@
             (
              (<< 226, 17, 160, 42, 19, 122, 48, 22, 151, 251, 201, 107, 49, 132, 14, 51, 168, 250, 158, 30, 208, 191, 141, 90,
                  215, 174, 105, 226, 85, 148, 218, 216, 151, 6, 229 >>
               :> << 246, 83, 62, 61, 44, 124, 55, 80, 179, 52, 53, 89, 239, 149, 123, 225, 248, 101, 150, 38, 95, 12, 158, 240,
                     177, 59, 123, 200, 211, 155, 199, 121 >>)
              @@
              (<< 226, 17, 160, 46, 44, 97, 222, 148, 156, 238, 201, 118, 128, 203, 96, 200, 111, 181, 120, 66, 170, 80, 17, 74,
                  228, 229, 6, 140, 20, 117, 72, 233, 33, 255, 153 >>
               :> << 0, 208, 188, 101, 20, 54, 253, 228, 123, 147, 11, 230, 154, 159, 20, 233, 118, 217, 16, 145, 194, 19, 216, 139,
                     235, 50, 115, 255, 241, 21, 68, 94 >>)
             )
            )
           )
           @@
           (
            (
             (<< 226, 17, 160, 46, 233, 141, 55, 132, 58, 103, 209, 193, 121, 247, 79, 240, 218, 32, 207, 177, 100, 28, 19, 25,
                 74, 21, 15, 199, 142, 136, 177, 155, 207, 57, 209 >>
              :> << 234, 198, 163, 113, 68, 84, 201, 61, 137, 230, 164, 168, 187, 175, 165, 203, 48, 35, 170, 104, 70, 121, 145, 107,
                    250, 46, 132, 143, 104, 172, 114, 155 >>)
             @@
             (<< 226, 17, 160, 46, 245, 98, 26, 187, 80, 230, 139, 117, 175, 29, 140, 156, 139, 99, 187, 230, 211, 70, 219, 102,
                 89, 254, 210, 215, 77, 48, 29, 108, 103, 221, 95 >>
              :> << 255, 202, 187, 149, 226, 176, 128, 61, 253, 164, 138, 228, 57, 172, 31, 43, 78, 155, 218, 242, 149, 58, 155, 191,
                    190, 29, 190, 92, 75, 171, 218, 251 >>)
            )
            @@
            (
             (<< 226, 17, 160, 47, 180, 80, 209, 12, 5, 213, 2, 73, 111, 242, 212, 4, 131, 67, 157, 72, 173, 229, 191, 202,
                 253, 187, 55, 195, 202, 154, 238, 189, 223, 216, 159 >>
              :> << 183, 252, 81, 97, 242, 106, 53, 180, 139, 136, 116, 89, 215, 47, 18, 92, 18, 88, 35, 135, 49, 221, 249, 69,
                    33, 59, 197, 57, 18, 24, 70, 90 >>)
             @@
             (
              (<< 226, 17, 160, 47, 200, 109, 51, 111, 189, 236, 237, 152, 237, 113, 181, 20, 116, 53, 36, 63, 53, 235, 48, 178,
                  223, 65, 209, 248, 56, 69, 74, 171, 176, 132, 50 >>
               :> << 183, 224, 172, 10, 244, 168, 224, 212, 104, 250, 222, 254, 63, 198, 156, 178, 118, 32, 130, 248, 18, 203, 35, 177,
                     131, 243, 197, 118, 168, 221, 208, 122 >>)
              @@
              (<< 226, 17, 160, 49, 13, 141, 187, 5, 216, 170, 152, 49, 82, 164, 164, 116, 143, 201, 53, 103, 101, 91, 77, 206,
                  242, 84, 46, 199, 225, 140, 179, 221, 112, 224, 207 >>
               :> << 57, 49, 106, 76, 52, 13, 148, 153, 84, 227, 105, 233, 177, 157, 75, 135, 216, 254, 163, 42, 109, 250, 2, 217,
                     208, 167, 204, 177, 242, 1, 208, 160 >>)
             )
            )
           )
          )
          @@
          (
           (
            (
             (<< 226, 17, 160, 49, 205, 39, 38, 244, 140, 107, 90, 165, 226, 79, 83, 139, 233, 40, 206, 67, 129, 187, 58, 124,
                 251, 88, 9, 111, 0, 139, 133, 53, 103, 220, 127 >>
              :> << 171, 100, 204, 100, 228, 254, 196, 233, 230, 49, 120, 111, 32, 94, 41, 128, 214, 237, 190, 198, 3, 225, 145, 74,
                    231, 165, 220, 34, 193, 223, 204, 45 >>)
             @@
             (<< 226, 17, 160, 51, 176, 29, 9, 7, 64, 193, 203, 246, 168, 101, 88, 186, 82, 51, 150, 234, 153, 252, 132, 229,
                 119, 22, 26, 24, 61, 183, 78, 58, 6, 171, 179 >>
              :> << 26, 182, 94, 247, 94, 189, 148, 183, 93, 151, 119, 185, 198, 4, 3, 176, 58, 118, 195, 180, 225, 154, 197, 161,
                    214, 249, 231, 252, 40, 59, 153, 26 >>)
            )
            @@
            (
             (<< 226, 17, 160, 53, 197, 210, 238, 0, 130, 181, 110, 123, 73, 68, 49, 221, 88, 95, 22, 140, 56, 183, 227, 231,
                 120, 28, 99, 98, 79, 61, 12, 96, 161, 145, 251 >>
              :> << 107, 75, 202, 191, 175, 46, 64, 69, 206, 133, 42, 102, 96, 248, 71, 0, 245, 192, 216, 45, 162, 49, 171, 167,
                    178, 178, 28, 152, 40, 92, 49, 25 >>)
             @@
             (
              (<< 226, 17, 160, 54, 31, 179, 178, 121, 59, 219, 31, 3, 182, 243, 142, 61, 157, 182, 149, 27, 251, 52, 72, 201,
                  95, 234, 104, 68, 77, 181, 240, 149, 125, 74, 106 >>
               :> << 145, 80, 17, 207, 189, 6, 152, 172, 53, 166, 120, 134, 35, 109, 55, 107, 203, 59, 18, 220, 254, 156, 128, 247,
                     250, 242, 182, 39, 234, 127, 151, 28 >>)
              @@
              (<< 226, 17, 160, 55, 11, 255, 61, 188, 89, 95, 126, 192, 225, 33, 229, 220, 34, 220, 237, 104, 225, 120, 234, 99,
                  202, 251, 87, 213, 240, 43, 109, 94, 21, 35, 98 >>
               :> << 95, 34, 80, 223, 82, 11, 15, 79, 28, 111, 47, 29, 110, 233, 181, 75, 252, 38, 10, 207, 187, 243, 31, 229,
                     4, 46, 205, 147, 57, 215, 179, 198 >>)
             )
            )
           )
           @@
           (
            (
             (<< 226, 17, 160, 55, 214, 132, 124, 86, 105, 133, 111, 1, 165, 43, 153, 67, 236, 214, 128, 186, 36, 169, 44, 254,
                 112, 212, 24, 35, 150, 95, 79, 222, 77, 32, 238 >>
              :> << 72, 191, 128, 223, 60, 40, 101, 116, 108, 242, 206, 23, 236, 44, 44, 168, 236, 206, 19, 176, 147, 48, 253, 36,
                    24, 115, 67, 108, 179, 135, 224, 84 >>)
             @@
             (<< 226, 17, 160, 58, 32, 173, 169, 26, 78, 238, 20, 21, 12, 101, 229, 100, 254, 102, 201, 6, 223, 40, 92, 33,
                 1, 240, 141, 51, 127, 94, 184, 36, 100, 13, 180 >>
              :> << 42, 92, 72, 104, 91, 28, 8, 80, 238, 103, 110, 208, 26, 182, 216, 52, 232, 126, 182, 154, 48, 207, 189, 227,
                    85, 21, 110, 166, 162, 115, 30, 165 >>)
            )
            @@
            (
             (<< 226, 17, 160, 58, 226, 38, 56, 28, 43, 217, 120, 156, 155, 67, 105, 179, 106, 85, 143, 125, 80, 223, 145, 248,
                 62, 44, 56, 223, 220, 118, 92, 161, 95, 94, 94 >>
              :> << 73, 108, 182, 29, 31, 23, 86, 177, 29, 16, 68, 94, 68, 111, 247, 49, 129, 32, 238, 28, 130, 72, 213, 248,
                    64, 161, 6, 191, 173, 154, 200, 200 >>)
             @@
             (
              (<< 226, 17, 160, 59, 5, 233, 41, 105, 76, 92, 101, 240, 122, 31, 120, 77, 102, 202, 79, 167, 202, 99, 177, 123,
                  205, 133, 229, 68, 177, 81, 171, 73, 82, 159, 64 >>
               :> << 78, 97, 110, 126, 20, 239, 22, 97, 138, 216, 165, 139, 16, 189, 5, 101, 41, 179, 69, 208, 124, 97, 127, 181,
                     162, 210, 250, 190, 154, 31, 117, 66 >>)
              @@
              (<< 226, 17, 160, 59, 68, 241, 230, 239, 19, 83, 26, 60, 187, 214, 228, 190, 96, 76, 168, 125, 7, 152, 157, 160,
                  247, 255, 215, 203, 23, 71, 239, 24, 63, 26, 176 >>
               :> << 20, 117, 174, 194, 206, 166, 177, 70, 75, 107, 163, 240, 199, 3, 120, 107, 106, 16, 68, 47, 7, 2, 118, 146,
                     182, 178, 38, 109, 186, 179, 193, 130 >>)
             )
            )
           )
          )
         )
         @@
         (
          (
           (
            (
             (<< 226, 17, 160, 59, 109, 85, 221, 14, 16, 68, 223, 146, 55, 111, 31, 71, 22, 168, 182, 37, 41, 44, 71, 7,
                 44, 31, 84, 233, 49, 58, 65, 92, 54, 254, 167 >>
              :> << 177, 228, 73, 140, 201, 28, 11, 196, 30, 246, 26, 253, 198, 213, 33, 242, 120, 175, 75, 36, 42, 81, 99, 159,
                    61, 195, 84, 83, 19, 192, 125, 172 >>)
             @@
             (<< 226, 17, 160, 59, 111, 36, 114, 191, 239, 15, 128, 249, 101, 61, 163, 68, 123, 54, 156, 7, 29, 168, 231, 184,
                 77, 133, 160, 201, 129, 71, 244, 173, 197, 77, 125 >>
              :> << 212, 204, 151, 54, 119, 243, 34, 3, 35, 148, 202, 195, 216, 252, 61, 62, 135, 121, 43, 81, 171, 36, 107, 152,
                    81, 190, 229, 206, 121, 202, 195, 63 >>)
            )
            @@
            (
             (<< 226, 17, 160, 59, 251, 238, 235, 240, 48, 137, 169, 6, 242, 149, 182, 108, 86, 173, 62, 95, 159, 216, 14, 96,
                 120, 6, 241, 177, 247, 143, 234, 254, 115, 213, 228 >>
              :> << 27, 40, 103, 40, 120, 149, 73, 201, 105, 95, 217, 219, 240, 36, 237, 121, 235, 144, 199, 153, 122, 202, 205, 172,
                    130, 17, 153, 89, 206, 41, 53, 7 >>)
             @@
             (
              (<< 226, 17, 160, 60, 59, 156, 213, 46, 85, 187, 77, 66, 125, 126, 96, 114, 8, 153, 66, 101, 132, 165, 14, 33,
                  122, 53, 149, 119, 242, 223, 250, 113, 105, 193, 26 >>
               :> << 171, 174, 86, 61, 243, 227, 49, 90, 33, 31, 38, 143, 9, 157, 35, 47, 229, 95, 1, 195, 157, 234, 101, 167,
                     82, 145, 230, 126, 172, 66, 23, 42 >>)
              @@
              (<< 226, 17, 160, 61, 3, 69, 147, 81, 194, 52, 232, 21, 28, 61, 100, 206, 108, 17, 234, 253, 129, 91, 113, 199,
                  127, 71, 9, 166, 103, 194, 146, 105, 149, 232, 114 >>
               :> << 10, 226, 5, 89, 158, 151, 46, 168, 197, 201, 17, 160, 14, 243, 56, 182, 34, 125, 73, 113, 211, 234, 178, 173,
                     163, 128, 161, 35, 23, 61, 12, 71 >>)
             )
            )
           )
           @@
           (
            (
             (<< 226, 17, 160, 61, 75, 169, 205, 160, 198, 0, 174, 71, 227, 0, 154, 0, 140, 207, 136, 18, 180, 117, 14, 177,
                 230, 111, 142, 68, 72, 3, 71, 104, 173, 146, 76 >>
              :> << 143, 171, 9, 35, 144, 219, 247, 197, 172, 207, 253, 156, 251, 23, 252, 189, 141, 104, 65, 244, 76, 42, 22, 35,
                    71, 116, 101, 195, 215, 104, 231, 68 >>)
             @@
             (<< 226, 17, 160, 61, 165, 187, 68, 22, 169, 188, 185, 45, 65, 38, 55, 106, 100, 164, 85, 122, 38, 48, 114, 238,
                 230, 253, 104, 121, 96, 9, 138, 103, 107, 234, 78 >>
              :> << 78, 84, 17, 141, 71, 108, 125, 83, 132, 85, 248, 159, 70, 230, 69, 59, 169, 175, 68, 79, 101, 76, 88, 16,
                    205, 213, 14, 65, 33, 12, 11, 88 >>)
            )
            @@
            (
             (<< 226, 17, 160, 62, 94, 248, 39, 253, 14, 230, 234, 219, 201, 228, 247, 61, 252, 17, 91, 201, 249, 73, 144, 106,
                 29, 83, 24, 1, 251, 49, 190, 45, 25, 237, 16 >>
              :> << 3, 123, 36, 64, 44, 146, 32, 221, 218, 250, 156, 87, 105, 114, 236, 47, 65, 81, 64, 189, 95, 66, 137, 89,
                    163, 230, 247, 73, 141, 251, 202, 136 >>)
             @@
             (
              (<< 226, 17, 160, 63, 2, 66, 108, 97, 89, 215, 130, 156, 249, 21, 141, 199, 98, 7, 156, 215, 137, 71, 26, 158,
                  91, 143, 87, 119, 224, 161, 169, 102, 30, 200, 91 >>
               :> << 129, 123, 106, 232, 116, 157, 1, 225, 46, 52, 172, 169, 68, 137, 215, 237, 120, 88, 232, 52, 151, 132, 221, 89,
                     5, 8, 123, 173, 152, 252, 20, 66 >>)
              @@
              (<< 226, 17, 160, 63, 27, 126, 228, 3, 156, 248, 81, 206, 248, 210, 225, 195, 32, 24, 148, 26, 120, 85, 182, 227,
                  158, 34, 191, 26, 120, 218, 69, 186, 55, 122, 10 >>
               :> << 132, 175, 6, 24, 170, 148, 187, 27, 71, 29, 122, 123, 122, 101, 193, 45, 97, 131, 221, 111, 61, 175, 252, 198,
                     108, 27, 27, 205, 164, 156, 98, 254 >>)
             )
            )
           )
          )
          @@
          (
           (
            (
             (<< 226, 17, 160, 63, 58, 150, 212, 37, 108, 251, 8, 222, 5, 189, 89, 156, 193, 163, 41, 11, 114, 191, 239, 185,
                 251, 250, 123, 192, 132, 106, 139, 79, 212, 111, 161 >>
              :> << 116, 107, 143, 111, 185, 191, 214, 160, 204, 189, 76, 117, 106, 89, 8, 87, 200, 80, 200, 22, 103, 30, 142, 184,
                    139, 9, 14, 11, 18, 129, 5, 59 >>)
             @@
             (<< 226, 17, 160, 65, 52, 45, 229, 47, 190, 233, 153, 184, 150, 160, 165, 30, 60, 178, 226, 43, 25, 246, 201, 141,
                 178, 186, 19, 48, 70, 40, 15, 52, 227, 210, 163 >>
              :> << 190, 202, 202, 228, 134, 90, 97, 159, 142, 133, 157, 109, 191, 10, 81, 241, 63, 73, 176, 249, 154, 105, 33, 22,
                    136, 167, 84, 21, 231, 154, 54, 14 >>)
            )
            @@
            (
             (<< 226, 17, 160, 66, 247, 255, 138, 39, 206, 119, 154, 102, 210, 232, 23, 187, 31, 24, 89, 13, 79, 104, 87, 114,
                 216, 229, 205, 17, 51, 208, 237, 205, 60, 99, 74 >>
              :> << 20, 50, 132, 124, 170, 130, 94, 205, 89, 237, 190, 64, 10, 43, 29, 11, 71, 77, 6, 52, 40, 36, 154, 23,
                    190, 61, 212, 183, 58, 117, 205, 207 >>)
             @@
             (
              (<< 226, 17, 160, 67, 54, 249, 157, 158, 138, 109, 220, 219, 5, 182, 87, 63, 119, 250, 175, 158, 229, 25, 178, 69,
                  248, 181, 90, 111, 187, 76, 80, 11, 223, 24, 76 >>
               :> << 191, 229, 151, 218, 114, 45, 83, 178, 140, 210, 194, 137, 209, 35, 83, 214, 24, 124, 27, 10, 154, 34, 186, 186,
                     129, 166, 194, 221, 35, 93, 55, 9 >>)
              @@
              (<< 226, 17, 160, 67, 89, 111, 7, 118, 76, 222, 186, 83, 123, 254, 71, 133, 192, 107, 7, 125, 5, 79, 223, 65,
                  198, 240, 247, 58, 56, 149, 101, 226, 114, 47, 162 >>
               :> << 245, 7, 30, 195, 55, 11, 125, 131, 116, 102, 176, 238, 33, 75, 94, 11, 217, 112, 25, 139, 19, 73, 160, 165,
                     71, 31, 55, 172, 158, 171, 20, 170 >>)
             )
            )
           )
           @@
           (
            (
             (<< 226, 17, 160, 68, 51, 131, 133, 156, 195, 72, 236, 221, 253, 77, 45, 164, 46, 237, 218, 230, 212, 135, 160, 19,
                 156, 40, 64, 22, 134, 252, 245, 7, 251, 245, 94 >>
              :> << 227, 145, 124, 3, 133, 160, 180, 68, 212, 99, 82, 99, 180, 227, 99, 1, 162, 99, 243, 135, 9, 109, 65, 241,
                    177, 19, 98, 112, 163, 199, 255, 14 >>)
             @@
             (<< 226, 17, 160, 72, 109, 236, 204, 188, 142, 129, 23, 19, 94, 88, 74, 209, 177, 236, 55, 65, 8, 38, 115, 54,
                 23, 188, 209, 184, 206, 39, 121, 109, 7, 229, 192 >>
              :> << 130, 188, 102, 206, 233, 247, 145, 7, 67, 194, 216, 78, 204, 86, 249, 103, 169, 143, 144, 95, 117, 155, 131, 167,
                    110, 99, 37, 226, 8, 105, 18, 252 >>)
            )
            @@
            (
             (<< 226, 17, 160, 73, 47, 76, 190, 113, 71, 228, 117, 2, 51, 71, 125, 96, 119, 172, 24, 235, 191, 79, 96, 240,
                 102, 131, 88, 214, 192, 134, 114, 116, 80, 57, 78 >>
              :> << 121, 164, 35, 14, 146, 237, 203, 115, 238, 149, 90, 213, 58, 163, 11, 249, 255, 193, 81, 51, 185, 190, 3, 219,
                    109, 89, 16, 182, 235, 204, 184, 78 >>)
             @@
             (
              (<< 226, 17, 160, 74, 10, 42, 37, 134, 147, 215, 19, 131, 162, 225, 9, 22, 74, 118, 196, 218, 254, 98, 32, 78,
                  68, 135, 17, 31, 55, 239, 231, 207, 30, 193, 235 >>
               :> << 143, 176, 53, 180, 95, 155, 221, 161, 134, 29, 198, 195, 61, 132, 195, 131, 232, 73, 177, 25, 48, 73, 120, 30,
                     94, 129, 143, 100, 89, 120, 0, 88 >>)
              @@
              (<< 226, 17, 160, 74, 36, 156, 158, 22, 225, 21, 247, 118, 100, 109, 196, 2, 238, 175, 108, 240, 86, 61, 248, 11,
                  122, 21, 144, 225, 117, 206, 21, 100, 47, 8, 212 >>
               :> << 5, 95, 12, 221, 172, 147, 52, 215, 74, 9, 169, 61, 131, 215, 97, 19, 98, 81, 44, 254, 137, 94, 235, 167,
                     129, 85, 75, 245, 134, 35, 105, 115 >>)
             )
            )
           )
          )
         )
        )
        @@
        (
         (
          (
           (
            (
             (<< 226, 17, 160, 74, 146, 111, 59, 58, 56, 226, 3, 255, 78, 81, 197, 236, 190, 249, 23, 159, 97, 196, 113, 212,
                 222, 192, 75, 255, 41, 235, 115, 10, 17, 32, 238 >>
              :> << 56, 137, 5, 242, 29, 204, 21, 116, 228, 112, 110, 235, 227, 168, 57, 112, 144, 133, 6, 58, 248, 238, 164, 209,
                    76, 69, 229, 132, 131, 119, 121, 210 >>)
             @@
             (<< 226, 17, 160, 75, 225, 233, 124, 199, 69, 95, 199, 38, 194, 93, 36, 85, 21, 92, 170, 252, 122, 9, 73, 125,
                 4, 201, 201, 178, 136, 155, 199, 212, 122, 241, 27 >>
              :> << 246, 68, 34, 214, 85, 162, 228, 4, 87, 234, 207, 133, 186, 23, 35, 17, 128, 140, 107, 194, 118, 246, 149, 179,
                    213, 154, 14, 247, 132, 232, 77, 195 >>)
            )
            @@
            (
             (<< 226, 17, 160, 77, 3, 133, 35, 175, 127, 194, 226, 90, 74, 159, 6, 137, 92, 85, 12, 130, 226, 45, 184, 99,
                 3, 254, 70, 24, 221, 228, 209, 146, 43, 20, 223 >>
              :> << 60, 54, 240, 156, 60, 120, 181, 177, 246, 189, 237, 66, 63, 122, 63, 102, 139, 242, 209, 18, 215, 129, 241, 125,
                    195, 203, 0, 84, 249, 167, 194, 48 >>)
             @@
             (
              (<< 226, 17, 160, 77, 62, 6, 119, 80, 178, 122, 61, 157, 15, 245, 154, 200, 127, 49, 97, 93, 188, 58, 111, 185,
                  63, 58, 48, 106, 72, 2, 72, 192, 80, 249, 49 >>
               :> << 55, 98, 119, 228, 157, 65, 230, 107, 70, 80, 21, 153, 145, 228, 209, 204, 1, 233, 195, 61, 55, 65, 141, 51,
                     12, 149, 180, 64, 126, 220, 131, 10 >>)
              @@
              (<< 226, 17, 160, 79, 210, 69, 91, 157, 101, 96, 69, 147, 173, 76, 13, 105, 30, 69, 117, 183, 118, 231, 142, 135,
                  133, 246, 203, 130, 4, 89, 133, 126, 124, 68, 110 >>
               :> << 190, 109, 181, 48, 232, 130, 85, 67, 117, 38, 178, 32, 101, 12, 138, 189, 211, 118, 209, 200, 180, 67, 61, 53,
                     206, 37, 148, 14, 246, 195, 0, 249 >>)
             )
            )
           )
           @@
           (
            (
             (<< 226, 17, 160, 80, 104, 46, 178, 63, 251, 17, 203, 129, 30, 132, 209, 102, 247, 226, 193, 0, 156, 22, 6, 171,
                 158, 206, 120, 136, 161, 236, 255, 154, 158, 16, 178 >>
              :> << 238, 248, 179, 252, 39, 53, 187, 5, 84, 250, 210, 114, 82, 18, 76, 212, 111, 169, 240, 153, 108, 143, 114, 11,
                    229, 132, 97, 236, 7, 141, 104, 214 >>)
             @@
             (<< 226, 17, 160, 80, 116, 24, 200, 28, 183, 28, 174, 173, 30, 195, 179, 218, 82, 224, 119, 145, 248, 33, 141, 165,
                 5, 194, 29, 104, 93, 80, 23, 84, 74, 56, 166 >>
              :> << 213, 101, 53, 71, 92, 224, 128, 248, 195, 245, 207, 61, 192, 241, 242, 15, 228, 215, 67, 114, 96, 47, 109, 59,
                    115, 201, 36, 174, 53, 16, 25, 111 >>)
            )
            @@
            (
             (<< 226, 17, 160, 80, 135, 142, 247, 85, 246, 234, 111, 170, 186, 151, 111, 86, 54, 164, 109, 155, 139, 66, 183, 79,
                 110, 174, 193, 2, 252, 191, 146, 26, 3, 71, 90 >>
              :> << 254, 121, 35, 71, 224, 32, 77, 182, 73, 182, 131, 29, 165, 35, 80, 42, 230, 28, 40, 187, 207, 96, 187, 115,
                    237, 93, 123, 86, 66, 24, 143, 172 >>)
             @@
             (
              (<< 226, 17, 160, 81, 167, 158, 222, 237, 61, 118, 212, 34, 227, 37, 127, 215, 117, 102, 229, 148, 65, 31, 51, 164,
                  160, 189, 92, 39, 252, 148, 86, 251, 25, 83, 93 >>
               :> << 33, 234, 121, 30, 164, 135, 236, 148, 91, 21, 124, 220, 16, 225, 243, 66, 224, 124, 181, 205, 9, 222, 209, 52,
                     32, 29, 168, 130, 72, 222, 76, 114 >>)
              @@
              (<< 226, 17, 160, 81, 206, 100, 182, 136, 130, 246, 88, 15, 60, 234, 116, 188, 127, 39, 76, 252, 30, 120, 135, 44,
                  24, 199, 155, 232, 32, 119, 209, 129, 65, 23, 17 >>
               :> << 150, 95, 75, 116, 209, 129, 133, 236, 196, 130, 93, 190, 34, 115, 71, 186, 216, 61, 72, 102, 15, 132, 48, 44,
                     1, 43, 120, 22, 68, 26, 75, 84 >>)
             )
            )
           )
          )
          @@
          (
           (
            (
             (<< 226, 17, 160, 81, 254, 212, 88, 20, 63, 71, 249, 186, 188, 196, 147, 76, 230, 41, 37, 64, 136, 186, 254, 215,
                 183, 80, 155, 240, 88, 135, 239, 217, 115, 129, 11 >>
              :> << 153, 142, 232, 98, 129, 200, 1, 147, 23, 247, 209, 111, 244, 108, 18, 37, 161, 170, 205, 196, 77, 108, 57, 246,
                    186, 20, 163, 219, 212, 106, 67, 36 >>)
             @@
             (<< 226, 17, 160, 83, 221, 232, 52, 6, 232, 199, 128, 102, 70, 59, 185, 134, 107, 201, 98, 1, 85, 153, 48, 95,
                 126, 172, 137, 141, 198, 215, 177, 198, 112, 64, 102 >>
              :> << 163, 93, 114, 53, 42, 137, 122, 252, 146, 225, 43, 177, 200, 207, 197, 224, 122, 178, 248, 131, 244, 165, 215, 124,
                    124, 124, 102, 108, 85, 230, 137, 26 >>)
            )
            @@
            (
             (<< 226, 17, 160, 84, 48, 150, 213, 232, 49, 70, 158, 9, 28, 34, 103, 118, 231, 184, 211, 90, 96, 129, 212, 200,
                 108, 55, 198, 222, 42, 35, 46, 13, 48, 125, 110 >>
              :> << 38, 195, 88, 106, 116, 141, 145, 168, 139, 110, 182, 130, 82, 223, 100, 165, 3, 26, 250, 9, 82, 190, 105, 123,
                    103, 134, 247, 93, 9, 56, 38, 223 >>)
             @@
             (
              (<< 226, 17, 160, 85, 155, 209, 193, 52, 199, 255, 10, 29, 250, 95, 226, 19, 38, 94, 101, 16, 251, 238, 17, 9,
                  36, 249, 54, 27, 8, 166, 137, 76, 238, 55, 125 >>
               :> << 63, 133, 100, 132, 244, 169, 169, 226, 226, 121, 48, 40, 5, 160, 84, 88, 223, 65, 30, 31, 83, 70, 60, 67,
                     229, 129, 94, 127, 249, 93, 63, 57 >>)
              @@
              (<< 226, 17, 160, 85, 195, 3, 164, 194, 160, 76, 23, 99, 48, 47, 49, 155, 93, 35, 28, 57, 19, 33, 19, 216,
                  198, 60, 158, 227, 23, 243, 11, 197, 216, 209, 186 >>
               :> << 9, 147, 74, 124, 141, 212, 220, 71, 204, 41, 104, 242, 87, 136, 188, 216, 72, 30, 17, 33, 102, 79, 131, 182,
                     204, 26, 5, 68, 15, 60, 137, 54 >>)
             )
            )
           )
           @@
           (
            (
             (<< 226, 17, 160, 87, 37, 237, 122, 207, 108, 40, 235, 67, 55, 86, 214, 121, 50, 221, 188, 100, 134, 41, 169, 3,
                 96, 34, 107, 29, 177, 141, 239, 32, 59, 241, 211 >>
              :> << 246, 54, 229, 233, 10, 27, 46, 71, 70, 20, 75, 125, 166, 175, 3, 157, 185, 233, 38, 212, 61, 84, 97, 230,
                    20, 239, 228, 0, 49, 222, 72, 207 >>)
             @@
             (<< 226, 17, 160, 87, 226, 63, 120, 108, 132, 126, 164, 119, 140, 234, 4, 34, 109, 115, 104, 167, 45, 48, 113, 161,
                 152, 165, 187, 228, 195, 36, 46, 212, 40, 168, 184 >>
              :> << 132, 81, 223, 255, 60, 199, 135, 216, 128, 238, 117, 38, 9, 186, 215, 130, 217, 177, 80, 6, 243, 90, 246, 110,
                    242, 193, 45, 12, 247, 119, 187, 118 >>)
            )
            @@
            (
             (<< 226, 17, 160, 93, 2, 0, 41, 41, 151, 146, 112, 10, 93, 21, 164, 168, 60, 100, 98, 47, 234, 186, 242, 172,
                 140, 222, 167, 82, 7, 41, 69, 17, 115, 58, 118 >>
              :> << 56, 226, 50, 246, 2, 59, 103, 5, 230, 147, 236, 143, 244, 59, 35, 116, 172, 216, 108, 64, 4, 62, 131, 244,
                    61, 252, 155, 132, 93, 123, 114, 4 >>)
             @@
             (
              (<< 226, 17, 160, 93, 229, 103, 118, 159, 60, 147, 111, 85, 151, 85, 195, 27, 12, 105, 125, 124, 96, 35, 121, 148,
                  158, 226, 49, 50, 196, 25, 140, 66, 239, 200, 46 >>
               :> << 1, 253, 100, 221, 143, 114, 80, 71, 168, 1, 160, 77, 210, 66, 127, 1, 95, 135, 217, 130, 209, 94, 4, 250,
                     122, 175, 212, 4, 136, 169, 232, 86 >>)
              @@
              (<< 226, 17, 160, 95, 176, 144, 93, 255, 192, 192, 5, 92, 91, 57, 168, 44, 207, 208, 146, 0, 109, 246, 178, 188,
                  231, 245, 168, 127, 30, 220, 171, 195, 148, 176, 90 >>
               :> << 184, 193, 189, 218, 30, 220, 237, 250, 131, 138, 68, 134, 96, 96, 199, 204, 232, 198, 59, 126, 190, 227, 21, 5,
                     30, 95, 19, 73, 78, 37, 253, 77 >>)
             )
            )
           )
          )
         )
         @@
         (
          (
           (
            (
             (<< 226, 17, 160, 95, 194, 23, 20, 254, 212, 80, 66, 103, 185, 235, 167, 70, 143, 91, 104, 109, 206, 5, 237, 163,
                 196, 136, 67, 31, 200, 185, 226, 147, 120, 29, 0 >>
              :> << 226, 23, 196, 18, 24, 240, 6, 211, 63, 244, 97, 86, 44, 221, 67, 115, 53, 33, 43, 54, 89, 74, 85, 14,
                    38, 215, 107, 184, 180, 44, 21, 236 >>)
             @@
             (<< 226, 17, 160, 99, 11, 168, 39, 26, 214, 41, 128, 114, 232, 9, 17, 239, 19, 248, 231, 197, 102, 32, 249, 156,
                 185, 140, 106, 19, 8, 27, 72, 40, 152, 142, 166 >>
              :> << 59, 203, 71, 242, 197, 138, 179, 28, 182, 128, 225, 203, 168, 90, 66, 117, 86, 187, 147, 185, 76, 83, 181, 173,
                    44, 31, 170, 221, 61, 135, 145, 19 >>)
            )
            @@
            (
             (<< 226, 17, 160, 100, 102, 35, 40, 92, 110, 103, 7, 234, 150, 64, 45, 85, 105, 82, 44, 178, 138, 27, 218, 149,
                 209, 127, 21, 90, 234, 137, 134, 61, 86, 185, 78 >>
              :> << 31, 110, 209, 34, 45, 161, 235, 188, 167, 2, 206, 161, 82, 130, 85, 41, 153, 133, 254, 38, 229, 74, 252, 43,
                    235, 191, 96, 14, 91, 103, 179, 248 >>)
             @@
             (
              (<< 226, 17, 160, 104, 29, 79, 180, 230, 21, 220, 34, 109, 205, 95, 116, 131, 172, 87, 116, 254, 11, 91, 125, 185,
                  174, 142, 11, 151, 105, 255, 78, 164, 161, 216, 54 >>
               :> << 66, 135, 244, 149, 122, 97, 228, 50, 194, 19, 172, 127, 149, 242, 87, 141, 118, 177, 168, 45, 117, 123, 112, 174,
                     184, 241, 140, 139, 27, 205, 186, 14 >>)
              @@
              (<< 226, 17, 160, 104, 104, 127, 242, 174, 212, 120, 211, 207, 176, 183, 197, 43, 201, 55, 116, 231, 80, 57, 67, 190,
                  254, 89, 180, 79, 226, 230, 124, 115, 117, 134, 121 >>
               :> << 18, 201, 140, 150, 138, 200, 51, 90, 110, 197, 99, 15, 252, 48, 18, 241, 68, 48, 140, 126, 186, 190, 126, 104,
                     184, 105, 180, 138, 176, 85, 130, 91 >>)
             )
            )
           )
           @@
           (
            (
             (<< 226, 17, 160, 104, 187, 235, 169, 199, 207, 176, 52, 29, 123, 117, 105, 205, 35, 124, 223, 119, 56, 164, 229, 156,
                 23, 46, 86, 100, 144, 0, 100, 65, 202, 155, 142 >>
              :> << 91, 66, 28, 131, 29, 89, 229, 11, 11, 198, 232, 135, 85, 161, 36, 204, 136, 57, 87, 217, 151, 214, 21, 112,
                    223, 7, 184, 205, 242, 28, 182, 167 >>)
             @@
             (<< 226, 17, 160, 105, 222, 156, 178, 92, 16, 224, 192, 239, 211, 36, 109, 179, 16, 217, 220, 137, 72, 32, 38, 194,
                 160, 220, 110, 146, 14, 202, 243, 37, 128, 121, 190 >>
              :> << 253, 86, 27, 183, 222, 74, 200, 67, 3, 210, 245, 115, 82, 74, 13, 80, 75, 246, 131, 61, 55, 169, 90, 14,
                    24, 145, 67, 215, 75, 253, 216, 168 >>)
            )
            @@
            (
             (<< 226, 17, 160, 111, 27, 4, 38, 52, 53, 226, 115, 103, 60, 150, 30, 172, 188, 157, 23, 94, 106, 26, 247, 216,
                 57, 214, 57, 95, 133, 175, 132, 88, 88, 22, 93 >>
              :> << 13, 190, 211, 69, 194, 135, 126, 115, 128, 146, 114, 228, 207, 245, 116, 129, 66, 164, 171, 236, 27, 250, 178, 147,
                    68, 97, 1, 9, 138, 129, 124, 207 >>)
             @@
             (
              (<< 226, 17, 160, 111, 218, 169, 197, 225, 222, 27, 244, 223, 242, 206, 38, 238, 199, 93, 162, 136, 238, 76, 155, 126,
                  31, 149, 99, 146, 249, 94, 160, 85, 63, 30, 233 >>
               :> << 125, 169, 13, 209, 220, 193, 220, 150, 250, 42, 147, 118, 108, 36, 199, 132, 64, 93, 72, 159, 248, 4, 223, 233,
                     82, 70, 186, 110, 153, 71, 6, 111 >>)
              @@
              (<< 226, 17, 160, 111, 230, 250, 153, 186, 139, 10, 110, 52, 26, 142, 190, 240, 191, 98, 89, 253, 118, 242, 66, 123,
                  89, 180, 241, 182, 51, 21, 245, 32, 21, 202, 160 >>
               :> << 33, 248, 18, 95, 243, 30, 76, 255, 138, 51, 115, 94, 153, 16, 200, 8, 179, 10, 132, 58, 91, 108, 11, 137,
                     140, 55, 116, 30, 88, 11, 122, 11 >>)
             )
            )
           )
          )
          @@
          (
           (
            (
             (<< 226, 17, 160, 112, 73, 127, 167, 72, 238, 215, 105, 21, 159, 155, 255, 4, 122, 119, 20, 184, 32, 170, 92, 27,
                 254, 158, 152, 5, 239, 94, 253, 219, 209, 199, 200 >>
              :> << 45, 173, 218, 48, 246, 109, 201, 56, 203, 53, 217, 183, 49, 250, 45, 49, 35, 233, 134, 112, 131, 225, 9, 30,
                    68, 136, 230, 78, 167, 2, 202, 167 >>)
             @@
             (<< 226, 17, 160, 115, 67, 189, 136, 206, 36, 3, 154, 107, 185, 31, 213, 171, 53, 79, 93, 253, 174, 156, 33, 33,
                 175, 142, 238, 199, 121, 184, 178, 31, 83, 130, 89 >>
              :> << 181, 17, 83, 65, 151, 175, 81, 134, 164, 189, 101, 20, 232, 71, 159, 180, 132, 68, 61, 107, 7, 11, 187, 149,
                    249, 38, 162, 171, 188, 190, 166, 118 >>)
            )
            @@
            (
             (<< 226, 17, 160, 119, 44, 243, 109, 148, 165, 233, 14, 227, 104, 164, 43, 233, 211, 5, 152, 248, 68, 232, 59, 8,
                 227, 173, 221, 42, 182, 3, 155, 92, 197, 224, 157 >>
              :> << 16, 47, 5, 239, 36, 253, 247, 102, 168, 79, 73, 62, 96, 233, 239, 9, 227, 9, 153, 48, 152, 189, 223, 99,
                    240, 229, 233, 229, 126, 28, 9, 73 >>)
             @@
             (
              (<< 226, 17, 160, 120, 88, 248, 226, 9, 176, 200, 187, 243, 254, 25, 254, 47, 110, 13, 128, 11, 167, 95, 3, 146,
                  100, 222, 193, 121, 111, 147, 70, 77, 211, 165, 35 >>
               :> << 229, 183, 186, 155, 83, 66, 116, 217, 38, 208, 107, 109, 162, 241, 85, 135, 137, 171, 165, 210, 153, 23, 101, 252,
                     73, 124, 139, 79, 62, 107, 78, 167 >>)
              @@
              (<< 226, 17, 160, 120, 98, 80, 193, 117, 5, 1, 44, 46, 155, 56, 84, 185, 203, 159, 51, 236, 182, 32, 36, 191,
                  251, 137, 58, 0, 165, 215, 6, 128, 242, 6, 88 >>
               :> << 162, 194, 172, 74, 45, 30, 159, 107, 13, 105, 12, 133, 29, 23, 130, 160, 113, 243, 85, 80, 69, 27, 149, 33,
                     175, 111, 213, 82, 251, 125, 187, 145 >>)
             )
            )
           )
           @@
           (
            (
             (<< 226, 17, 160, 120, 140, 254, 208, 112, 133, 80, 24, 104, 207, 66, 26, 163, 219, 232, 72, 229, 17, 85, 124, 48,
                 174, 55, 242, 75, 81, 44, 245, 137, 254, 187, 65 >>
              :> << 155, 156, 216, 10, 167, 174, 17, 67, 182, 130, 202, 224, 132, 219, 100, 190, 140, 127, 186, 212, 2, 194, 126, 13,
                    114, 128, 0, 93, 173, 246, 139, 8 >>)
             @@
             (<< 226, 17, 160, 121, 124, 107, 41, 28, 38, 158, 50, 23, 21, 102, 151, 169, 130, 35, 81, 111, 128, 26, 154, 40,
                 153, 53, 31, 139, 203, 208, 144, 18, 82, 72, 118 >>
              :> << 214, 193, 237, 138, 171, 59, 98, 181, 39, 152, 98, 41, 211, 138, 147, 111, 225, 193, 46, 113, 188, 146, 21, 242,
                    97, 252, 46, 36, 211, 33, 198, 206 >>)
            )
            @@
            (
             (<< 226, 17, 160, 121, 240, 58, 150, 138, 251, 220, 11, 151, 133, 119, 132, 14, 189, 198, 66, 125, 39, 88, 213, 109,
                 121, 2, 81, 249, 196, 145, 141, 217, 71, 153, 125 >>
              :> << 151, 123, 78, 67, 245, 208, 171, 220, 200, 79, 125, 109, 116, 148, 217, 173, 64, 20, 38, 80, 212, 15, 24, 217,
                    230, 4, 100, 25, 29, 255, 15, 141 >>)
             @@
             (
              (<< 226, 17, 160, 122, 216, 240, 43, 22, 195, 70, 194, 203, 37, 42, 92, 242, 232, 241, 201, 82, 64, 82, 189, 93,
                  4, 247, 129, 61, 199, 38, 47, 64, 116, 108, 101 >>
               :> << 147, 143, 137, 255, 38, 127, 50, 154, 165, 219, 175, 215, 219, 115, 239, 14, 236, 181, 211, 104, 89, 227, 5, 68,
                     155, 155, 206, 230, 121, 119, 187, 233 >>)
              @@
              (<< 226, 17, 160, 124, 199, 122, 132, 71, 15, 195, 174, 140, 12, 236, 123, 117, 95, 188, 208, 185, 50, 155, 12, 224,
                  220, 175, 160, 26, 244, 218, 254, 115, 24, 48, 229 >>
               :> << 16, 197, 119, 70, 107, 166, 231, 50, 8, 99, 52, 178, 75, 116, 139, 54, 216, 134, 167, 207, 63, 60, 88, 249,
                     53, 108, 40, 177, 150, 111, 197, 218 >>)
             )
            )
           )
          )
         )
        )
       )
      )
      @@
      (
       (
        (
         (
          (
           (
            (
             (<< 226, 17, 160, 125, 38, 47, 234, 23, 12, 24, 117, 3, 167, 156, 109, 56, 39, 164, 237, 124, 222, 226, 208, 0,
                 227, 13, 249, 33, 119, 235, 34, 237, 227, 36, 130 >>
              :> << 167, 58, 203, 98, 194, 174, 195, 180, 233, 247, 209, 111, 127, 177, 99, 117, 16, 162, 17, 84, 74, 223, 70, 188,
                    136, 71, 252, 174, 250, 144, 245, 22 >>)
             @@
             (<< 226, 17, 160, 126, 98, 140, 186, 57, 95, 100, 166, 175, 199, 67, 27, 30, 124, 138, 165, 32, 53, 203, 244, 195,
                 63, 11, 24, 252, 113, 62, 255, 244, 242, 39, 165 >>
              :> << 230, 159, 36, 42, 181, 200, 184, 237, 153, 197, 72, 241, 27, 157, 27, 96, 226, 184, 51, 231, 113, 231, 222, 60,
                    86, 135, 217, 78, 253, 37, 200, 238 >>)
            )
            @@
            (
             (<< 226, 17, 160, 126, 107, 39, 105, 88, 205, 179, 157, 232, 0, 122, 137, 192, 253, 147, 172, 28, 211, 43, 8, 83,
                 140, 229, 133, 223, 22, 68, 164, 159, 190, 133, 8 >>
              :> << 82, 248, 78, 159, 107, 90, 75, 72, 236, 13, 221, 156, 67, 90, 166, 6, 35, 99, 156, 189, 109, 2, 16, 234,
                    232, 246, 198, 31, 209, 226, 148, 141 >>)
             @@
             (
              (<< 226, 17, 160, 127, 213, 221, 219, 234, 60, 120, 165, 114, 209, 147, 216, 107, 174, 155, 58, 51, 51, 176, 248, 166,
                  103, 181, 188, 29, 215, 248, 71, 72, 23, 75, 210 >>
               :> << 144, 19, 124, 223, 154, 242, 30, 1, 221, 254, 214, 60, 210, 231, 82, 86, 106, 5, 221, 254, 59, 104, 176, 254,
                     117, 98, 117, 139, 112, 7, 92, 224 >>)
              @@
              (<< 226, 17, 160, 129, 195, 4, 91, 51, 32, 32, 136, 14, 197, 179, 49, 242, 215, 222, 250, 252, 50, 29, 37, 172,
                  206, 43, 83, 86, 172, 101, 146, 85, 5, 120, 184 >>
               :> << 225, 134, 118, 69, 166, 158, 195, 135, 36, 139, 108, 83, 188, 237, 103, 189, 212, 158, 58, 88, 195, 220, 206, 240,
                     46, 151, 209, 122, 59, 50, 218, 183 >>)
             )
            )
           )
           @@
           (
            (
             (<< 226, 17, 160, 131, 3, 134, 152, 55, 255, 41, 226, 77, 64, 196, 30, 209, 127, 234, 203, 8, 6, 244, 193, 188,
                 81, 11, 69, 82, 130, 222, 50, 161, 131, 198, 62 >>
              :> << 60, 44, 69, 90, 152, 153, 71, 137, 143, 158, 161, 84, 152, 202, 229, 110, 0, 134, 247, 48, 109, 93, 132, 57,
                    169, 19, 209, 89, 166, 61, 175, 154 >>)
             @@
             (<< 226, 17, 160, 133, 82, 84, 216, 5, 105, 31, 91, 103, 32, 52, 31, 98, 222, 136, 31, 22, 32, 54, 158, 200,
                 181, 118, 5, 146, 141, 10, 63, 222, 248, 188, 86 >>
              :> << 121, 178, 11, 84, 60, 85, 150, 230, 121, 213, 221, 129, 243, 245, 91, 195, 113, 197, 196, 80, 243, 39, 35, 120,
                    89, 228, 138, 11, 178, 99, 159, 99 >>)
            )
            @@
            (
             (<< 226, 17, 160, 134, 15, 253, 71, 138, 45, 167, 56, 216, 168, 12, 207, 188, 190, 109, 55, 208, 153, 78, 187, 144,
                 79, 230, 6, 203, 251, 232, 125, 217, 246, 146, 24 >>
              :> << 102, 139, 134, 95, 201, 159, 234, 152, 73, 70, 158, 122, 219, 25, 253, 147, 35, 14, 152, 12, 132, 145, 185, 161,
                    164, 43, 38, 247, 199, 201, 249, 232 >>)
             @@
             (
              (<< 226, 17, 160, 134, 151, 77, 234, 181, 118, 14, 229, 10, 133, 254, 29, 91, 33, 217, 72, 232, 84, 187, 41, 242,
                  175, 170, 175, 159, 213, 235, 131, 245, 102, 115, 213 >>
               :> << 184, 26, 119, 165, 236, 50, 234, 109, 135, 145, 56, 138, 152, 247, 44, 64, 165, 63, 126, 106, 8, 82, 81, 73,
                     73, 87, 79, 29, 172, 111, 14, 86 >>)
              @@
              (<< 226, 17, 160, 135, 10, 207, 255, 178, 27, 59, 124, 157, 13, 148, 236, 130, 135, 228, 143, 113, 11, 146, 184, 54,
                  131, 9, 29, 189, 246, 77, 152, 97, 83, 219, 65 >>
               :> << 60, 32, 202, 232, 31, 155, 115, 86, 135, 230, 250, 118, 124, 25, 247, 31, 96, 249, 68, 232, 0, 156, 128, 30,
                     200, 151, 155, 78, 56, 167, 129, 175 >>)
             )
            )
           )
          )
          @@
          (
           (
            (
             (<< 226, 17, 160, 135, 112, 227, 163, 96, 5, 26, 181, 232, 233, 206, 216, 19, 106, 19, 80, 29, 181, 210, 76, 65,
                 41, 70, 44, 126, 37, 151, 222, 206, 216, 98, 109 >>
              :> << 233, 140, 196, 168, 124, 123, 89, 173, 58, 156, 87, 137, 15, 51, 73, 150, 160, 192, 50, 30, 226, 59, 33, 29,
                    165, 158, 213, 244, 188, 232, 140, 197 >>)
             @@
             (<< 226, 17, 160, 136, 221, 168, 211, 57, 223, 13, 30, 88, 222, 252, 4, 62, 149, 86, 214, 37, 193, 65, 22, 28,
                 231, 158, 178, 34, 216, 236, 55, 42, 122, 7, 249 >>
              :> << 177, 73, 112, 116, 89, 245, 40, 52, 98, 36, 33, 144, 163, 18, 124, 230, 5, 241, 192, 78, 100, 220, 74, 73,
                    134, 194, 148, 187, 32, 90, 58, 41 >>)
            )
            @@
            (
             (<< 226, 17, 160, 136, 249, 180, 218, 37, 94, 62, 145, 141, 125, 123, 177, 163, 177, 16, 211, 181, 24, 141, 116, 25,
                 251, 68, 73, 39, 141, 142, 23, 152, 65, 159, 82 >>
              :> << 239, 92, 6, 52, 237, 178, 151, 175, 105, 70, 189, 182, 10, 172, 173, 62, 89, 209, 248, 195, 114, 198, 102, 80,
                    214, 5, 180, 201, 215, 3, 81, 217 >>)
             @@
             (
              (<< 226, 17, 160, 137, 131, 128, 170, 166, 213, 238, 164, 68, 119, 202, 37, 153, 40, 220, 11, 248, 207, 14, 196, 18,
                  142, 186, 15, 35, 227, 32, 60, 44, 55, 242, 236 >>
               :> << 34, 123, 119, 103, 195, 95, 62, 148, 54, 173, 127, 210, 45, 56, 193, 177, 167, 224, 30, 161, 78, 96, 131, 54,
                     119, 158, 198, 35, 212, 5, 157, 16 >>)
              @@
              (<< 226, 17, 160, 141, 20, 209, 2, 43, 10, 237, 5, 211, 150, 166, 214, 181, 229, 230, 76, 41, 232, 163, 15, 23,
                  28, 2, 227, 76, 118, 20, 119, 238, 157, 227, 222 >>
               :> << 72, 0, 133, 6, 215, 134, 60, 130, 113, 26, 106, 48, 2, 67, 88, 252, 188, 84, 136, 241, 144, 101, 237, 249,
                     204, 170, 241, 41, 127, 185, 219, 87 >>)
             )
            )
           )
           @@
           (
            (
             (<< 226, 17, 160, 144, 127, 164, 50, 218, 91, 32, 169, 1, 70, 7, 6, 233, 60, 140, 62, 159, 120, 149, 246, 122,
                 243, 184, 109, 159, 109, 82, 27, 28, 209, 58, 55 >>
              :> << 42, 211, 187, 36, 136, 193, 119, 119, 232, 215, 39, 216, 42, 103, 0, 175, 88, 231, 94, 218, 99, 43, 166, 134,
                    238, 185, 219, 71, 13, 90, 51, 7 >>)
             @@
             (<< 226, 17, 160, 145, 175, 65, 213, 229, 46, 192, 3, 5, 72, 122, 211, 190, 48, 123, 45, 202, 28, 215, 58, 34,
                 35, 73, 154, 150, 216, 1, 46, 202, 34, 50, 194 >>
              :> << 201, 156, 125, 171, 169, 186, 30, 195, 106, 86, 56, 64, 67, 130, 189, 43, 49, 160, 175, 12, 229, 89, 86, 161,
                    185, 101, 169, 62, 61, 179, 181, 81 >>)
            )
            @@
            (
             (<< 226, 17, 160, 145, 242, 114, 205, 148, 96, 113, 95, 189, 20, 218, 203, 129, 161, 68, 175, 127, 2, 150, 153, 165,
                 77, 184, 181, 199, 98, 53, 108, 183, 4, 45, 52 >>
              :> << 41, 184, 215, 52, 80, 240, 140, 182, 116, 48, 39, 108, 38, 22, 51, 69, 187, 103, 32, 226, 158, 89, 224, 76,
                    213, 219, 213, 176, 55, 39, 184, 54 >>)
             @@
             (
              (<< 226, 17, 160, 146, 11, 150, 80, 41, 239, 166, 74, 101, 136, 106, 69, 251, 99, 147, 21, 233, 108, 228, 35, 237,
                  50, 54, 87, 11, 214, 197, 27, 12, 76, 158, 65 >>
               :> << 100, 125, 159, 176, 157, 177, 199, 9, 43, 254, 66, 159, 29, 126, 60, 114, 218, 179, 186, 238, 223, 119, 180, 74,
                     174, 170, 153, 244, 86, 213, 8, 144 >>)
              @@
              (<< 226, 17, 160, 147, 237, 119, 51, 59, 26, 32, 233, 183, 63, 157, 116, 74, 135, 107, 116, 167, 227, 194, 198, 222,
                  7, 209, 222, 136, 56, 234, 10, 149, 219, 91, 190 >>
               :> << 170, 128, 195, 178, 49, 202, 69, 87, 72, 49, 144, 130, 147, 79, 127, 56, 91, 43, 117, 54, 60, 174, 106, 198,
                     194, 134, 80, 234, 5, 12, 114, 152 >>)
             )
            )
           )
          )
         )
         @@
         (
          (
           (
            (
             (<< 226, 17, 160, 148, 59, 53, 205, 184, 214, 104, 238, 79, 93, 74, 16, 13, 184, 211, 96, 45, 190, 47, 236, 129,
                 86, 155, 28, 140, 246, 10, 229, 63, 111, 3, 227 >>
              :> << 5, 137, 254, 91, 197, 175, 237, 25, 153, 243, 84, 242, 6, 42, 212, 64, 201, 238, 7, 74, 81, 37, 132, 244,
                    171, 122, 171, 57, 38, 192, 20, 197 >>)
             @@
             (<< 226, 17, 160, 151, 10, 218, 172, 158, 200, 135, 150, 197, 35, 111, 188, 201, 106, 31, 22, 99, 213, 87, 91, 50,
                 131, 115, 72, 36, 92, 253, 221, 99, 237, 65, 27 >>
              :> << 74, 238, 251, 179, 24, 59, 50, 52, 115, 164, 118, 54, 212, 80, 253, 23, 110, 134, 54, 34, 242, 115, 90, 220,
                    193, 117, 215, 124, 31, 219, 178, 198 >>)
            )
            @@
            (
             (<< 226, 17, 160, 151, 138, 212, 173, 35, 226, 158, 117, 244, 84, 247, 66, 69, 13, 149, 143, 240, 236, 204, 219, 40,
                 53, 9, 71, 51, 181, 249, 5, 108, 221, 105, 207 >>
              :> << 7, 105, 239, 220, 101, 184, 36, 174, 111, 205, 63, 222, 108, 70, 202, 53, 126, 2, 214, 231, 98, 162, 128, 152,
                    253, 130, 239, 47, 201, 61, 5, 155 >>)
             @@
             (
              (<< 226, 17, 160, 154, 21, 37, 95, 114, 116, 82, 18, 91, 254, 89, 245, 196, 153, 110, 28, 235, 44, 0, 62, 2,
                  245, 78, 63, 120, 214, 65, 194, 156, 39, 76, 146 >>
               :> << 34, 61, 203, 8, 222, 122, 23, 229, 249, 134, 219, 152, 87, 178, 5, 79, 54, 75, 129, 122, 62, 10, 93, 153,
                     12, 134, 54, 147, 26, 149, 4, 1 >>)
              @@
              (<< 226, 17, 160, 155, 230, 51, 190, 70, 211, 168, 49, 206, 199, 72, 131, 135, 9, 94, 68, 247, 141, 193, 62, 200,
                  217, 106, 200, 248, 64, 219, 255, 135, 213, 112, 180 >>
               :> << 248, 6, 121, 50, 201, 78, 110, 111, 51, 19, 107, 18, 224, 205, 43, 84, 57, 4, 54, 40, 249, 248, 97, 209,
                     182, 248, 223, 112, 187, 225, 97, 252 >>)
             )
            )
           )
           @@
           (
            (
             (<< 226, 17, 160, 158, 89, 142, 44, 170, 37, 48, 168, 104, 55, 83, 244, 37, 164, 151, 181, 214, 2, 162, 159, 238,
                 192, 246, 201, 119, 107, 69, 177, 164, 227, 142, 209 >>
              :> << 203, 24, 84, 125, 57, 27, 183, 165, 148, 146, 135, 163, 75, 173, 230, 154, 133, 124, 104, 243, 190, 50, 49, 4,
                    70, 199, 209, 82, 26, 98, 101, 4 >>)
             @@
             (<< 226, 17, 160, 160, 0, 30, 151, 211, 119, 190, 111, 206, 248, 91, 95, 146, 118, 5, 200, 166, 63, 231, 248, 52,
                 151, 230, 35, 23, 60, 127, 110, 149, 168, 173, 10 >>
              :> << 48, 117, 36, 25, 128, 1, 46, 22, 163, 180, 189, 56, 103, 10, 85, 66, 169, 60, 213, 184, 13, 222, 166, 80,
                    110, 60, 177, 61, 236, 190, 68, 241 >>)
            )
            @@
            (
             (<< 226, 17, 160, 160, 55, 87, 191, 65, 234, 3, 59, 73, 239, 113, 134, 143, 229, 234, 122, 152, 215, 191, 44, 162,
                 226, 64, 178, 168, 152, 185, 85, 223, 146, 16, 123 >>
              :> << 11, 63, 142, 125, 85, 68, 169, 72, 89, 170, 81, 163, 208, 145, 49, 188, 183, 195, 139, 190, 231, 69, 55, 138,
                    83, 230, 160, 63, 183, 37, 95, 10 >>)
             @@
             (
              (<< 226, 17, 160, 160, 101, 181, 145, 104, 229, 196, 46, 55, 46, 133, 235, 78, 89, 225, 234, 59, 134, 46, 254, 94,
                  198, 4, 36, 199, 207, 145, 133, 21, 14, 182, 40 >>
               :> << 173, 210, 80, 49, 241, 122, 182, 7, 157, 250, 165, 254, 211, 250, 237, 143, 74, 126, 122, 1, 83, 153, 231, 163,
                     62, 208, 115, 78, 168, 98, 75, 204 >>)
              @@
              (<< 226, 17, 160, 160, 108, 184, 229, 59, 20, 119, 27, 145, 241, 30, 190, 182, 50, 94, 246, 225, 99, 113, 180, 2,
                  145, 71, 73, 25, 172, 39, 91, 199, 153, 8, 180 >>
               :> << 55, 71, 162, 185, 87, 82, 135, 87, 119, 72, 3, 55, 71, 219, 246, 251, 71, 144, 90, 1, 43, 239, 80, 194,
                     178, 139, 127, 60, 161, 73, 225, 113 >>)
             )
            )
           )
          )
          @@
          (
           (
            (
             (<< 226, 17, 160, 161, 69, 82, 35, 248, 157, 192, 55, 201, 176, 137, 220, 69, 71, 231, 57, 162, 248, 53, 197, 116,
                 223, 177, 186, 118, 86, 66, 161, 51, 15, 80, 66 >>
              :> << 46, 27, 196, 249, 107, 163, 36, 187, 82, 166, 29, 193, 8, 40, 1, 119, 150, 67, 218, 210, 196, 238, 181, 78,
                    205, 244, 154, 26, 90, 141, 16, 175 >>)
             @@
             (<< 226, 17, 160, 163, 97, 63, 235, 38, 86, 84, 200, 119, 30, 170, 249, 93, 73, 179, 173, 87, 147, 131, 72, 71,
                 179, 115, 6, 89, 244, 64, 173, 23, 160, 238, 33 >>
              :> << 168, 136, 165, 177, 91, 166, 150, 4, 203, 72, 188, 179, 48, 170, 111, 222, 50, 212, 18, 71, 172, 178, 129, 179,
                    205, 141, 106, 153, 241, 253, 77, 27 >>)
            )
            @@
            (
             (<< 226, 17, 160, 163, 251, 36, 141, 197, 208, 97, 102, 1, 138, 213, 6, 28, 32, 221, 172, 184, 231, 238, 7, 229,
                 173, 40, 112, 212, 247, 233, 76, 47, 3, 255, 43 >>
              :> << 36, 56, 10, 139, 23, 240, 179, 88, 168, 161, 206, 46, 74, 4, 83, 174, 242, 62, 145, 49, 191, 42, 183, 189,
                    19, 255, 227, 149, 186, 100, 121, 31 >>)
             @@
             (
              (<< 226, 17, 160, 167, 88, 205, 134, 194, 121, 121, 70, 196, 90, 229, 254, 160, 114, 149, 25, 219, 249, 137, 71, 201,
                  179, 95, 7, 146, 97, 119, 37, 198, 42, 0, 160 >>
               :> << 8, 149, 7, 139, 10, 83, 65, 119, 192, 7, 79, 103, 34, 168, 7, 83, 66, 23, 126, 96, 196, 193, 101, 237,
                     65, 165, 160, 71, 46, 29, 217, 52 >>)
              @@
              (<< 226, 17, 160, 168, 94, 142, 13, 242, 191, 59, 146, 168, 201, 178, 75, 104, 251, 146, 24, 38, 162, 230, 97, 123,
                  121, 244, 144, 171, 122, 248, 2, 47, 232, 173, 73 >>
               :> << 30, 234, 10, 3, 157, 199, 65, 246, 116, 1, 189, 155, 211, 117, 86, 66, 170, 222, 18, 18, 244, 95, 250, 10,
                     255, 94, 103, 134, 48, 200, 18, 165 >>)
             )
            )
           )
           @@
           (
            (
             (<< 226, 17, 160, 168, 157, 184, 123, 171, 206, 49, 184, 100, 18, 126, 225, 209, 191, 41, 159, 231, 3, 67, 100, 98,
                 207, 27, 73, 64, 56, 31, 63, 206, 102, 207, 187 >>
              :> << 239, 233, 101, 51, 81, 7, 208, 85, 193, 167, 69, 226, 156, 213, 221, 129, 175, 43, 168, 95, 247, 244, 12, 127,
                    177, 96, 197, 64, 134, 175, 219, 126 >>)
             @@
             (<< 226, 17, 160, 168, 168, 10, 87, 226, 80, 89, 47, 148, 210, 171, 142, 249, 129, 205, 196, 65, 125, 148, 136, 24,
                 7, 146, 108, 119, 201, 247, 225, 105, 158, 244, 75 >>
              :> << 185, 16, 28, 227, 32, 220, 116, 194, 223, 205, 123, 199, 209, 163, 195, 206, 25, 5, 199, 55, 87, 100, 187, 158,
                    153, 93, 239, 228, 23, 16, 146, 38 >>)
            )
            @@
            (
             (<< 226, 17, 160, 169, 192, 151, 185, 208, 111, 49, 38, 210, 100, 216, 219, 84, 203, 44, 51, 19, 30, 68, 92, 240,
                 211, 19, 144, 111, 229, 54, 11, 193, 158, 120, 18 >>
              :> << 139, 120, 212, 119, 32, 154, 215, 181, 187, 114, 10, 209, 119, 214, 181, 105, 34, 0, 168, 186, 192, 15, 159, 71,
                    248, 46, 3, 60, 211, 107, 177, 78 >>)
             @@
             (
              (<< 226, 17, 160, 171, 245, 137, 102, 242, 253, 251, 67, 77, 183, 26, 19, 234, 15, 75, 233, 29, 208, 80, 72, 9,
                  246, 103, 127, 35, 148, 87, 147, 167, 103, 254, 217 >>
               :> << 162, 158, 183, 76, 117, 234, 122, 235, 20, 127, 243, 216, 67, 17, 31, 234, 150, 21, 141, 131, 130, 0, 150, 190,
                     26, 34, 34, 80, 162, 102, 103, 17 >>)
              @@
              (<< 226, 17, 160, 172, 218, 110, 61, 63, 21, 103, 122, 93, 60, 2, 50, 222, 110, 103, 128, 204, 79, 135, 38, 90,
                  242, 222, 250, 137, 148, 251, 40, 141, 27, 202, 72 >>
               :> << 2, 148, 170, 230, 129, 0, 11, 85, 177, 207, 254, 143, 201, 104, 184, 59, 29, 15, 185, 95, 3, 1, 168, 207,
                     32, 158, 225, 35, 12, 10, 126, 236 >>)
             )
            )
           )
          )
         )
        )
        @@
        (
         (
          (
           (
            (
             (<< 226, 17, 160, 173, 213, 160, 228, 212, 161, 206, 243, 191, 178, 62, 229, 181, 132, 221, 18, 100, 119, 92, 38, 127,
                 135, 239, 21, 142, 216, 249, 33, 98, 43, 209, 5 >>
              :> << 72, 199, 91, 1, 99, 16, 157, 24, 247, 200, 43, 236, 63, 217, 109, 196, 214, 182, 105, 117, 186, 60, 208, 120,
                    127, 43, 79, 204, 189, 17, 239, 139 >>)
             @@
             (<< 226, 17, 160, 174, 200, 56, 137, 155, 38, 246, 249, 133, 88, 140, 60, 39, 254, 202, 182, 213, 114, 147, 241, 221,
                 139, 31, 11, 59, 206, 59, 169, 136, 79, 211, 116 >>
              :> << 162, 42, 59, 56, 125, 178, 195, 54, 227, 211, 63, 223, 208, 237, 120, 209, 176, 100, 208, 83, 126, 197, 54, 26,
                    229, 231, 37, 25, 78, 214, 74, 111 >>)
            )
            @@
            (
             (<< 226, 17, 160, 175, 37, 55, 43, 43, 15, 234, 89, 252, 11, 252, 125, 177, 128, 114, 53, 19, 188, 234, 113, 173,
                 97, 27, 216, 3, 85, 149, 155, 154, 233, 122, 82 >>
              :> << 131, 12, 213, 77, 74, 38, 138, 38, 206, 198, 102, 109, 192, 233, 44, 102, 67, 223, 238, 177, 3, 95, 31, 234,
                    193, 53, 146, 219, 182, 81, 181, 46 >>)
             @@
             (
              (<< 226, 17, 160, 175, 77, 108, 46, 214, 245, 108, 107, 119, 161, 233, 30, 218, 112, 46, 231, 205, 9, 59, 220, 172,
                  35, 96, 165, 178, 45, 164, 3, 172, 115, 117, 3 >>
               :> << 21, 20, 33, 58, 108, 105, 94, 101, 241, 160, 236, 177, 93, 20, 208, 2, 25, 31, 78, 30, 98, 146, 143, 83,
                     81, 102, 226, 40, 133, 211, 253, 132 >>)
              @@
              (<< 226, 17, 160, 176, 8, 58, 36, 168, 196, 41, 92, 3, 9, 98, 167, 239, 215, 105, 115, 47, 252, 1, 245, 14,
                  41, 60, 55, 205, 151, 99, 249, 185, 118, 198, 61 >>
               :> << 236, 111, 1, 202, 196, 173, 206, 158, 169, 42, 46, 215, 133, 101, 160, 111, 90, 32, 20, 239, 252, 83, 245, 210,
                     153, 161, 22, 170, 100, 142, 220, 125 >>)
             )
            )
           )
           @@
           (
            (
             (<< 226, 17, 160, 176, 206, 78, 12, 29, 241, 223, 130, 22, 143, 200, 10, 215, 70, 37, 163, 102, 186, 83, 195, 1,
                 128, 1, 240, 76, 136, 165, 227, 61, 119, 79, 46 >>
              :> << 85, 43, 148, 237, 93, 231, 78, 221, 68, 78, 40, 51, 100, 101, 222, 185, 252, 212, 67, 84, 226, 99, 182, 230,
                    233, 161, 227, 41, 239, 66, 158, 178 >>)
             @@
             (<< 226, 17, 160, 177, 66, 49, 53, 152, 159, 195, 60, 236, 25, 20, 2, 89, 52, 149, 120, 83, 171, 128, 172, 115,
                 250, 199, 88, 35, 204, 48, 254, 150, 1, 118, 54 >>
              :> << 161, 103, 140, 163, 173, 92, 174, 119, 0, 177, 70, 154, 2, 228, 245, 33, 112, 189, 187, 185, 22, 185, 197, 21,
                    44, 211, 132, 103, 22, 253, 190, 25 >>)
            )
            @@
            (
             (<< 226, 17, 160, 178, 16, 168, 168, 184, 36, 10, 101, 48, 13, 232, 41, 46, 152, 125, 50, 188, 183, 41, 89, 53,
                 233, 137, 236, 149, 245, 27, 131, 181, 37, 250, 204 >>
              :> << 29, 43, 200, 110, 16, 41, 26, 170, 154, 203, 237, 156, 203, 0, 140, 102, 162, 93, 205, 230, 207, 177, 135, 80,
                    144, 120, 231, 47, 234, 238, 195, 200 >>)
             @@
             (
              (<< 226, 17, 160, 178, 130, 174, 21, 189, 157, 178, 224, 198, 228, 68, 155, 208, 98, 243, 228, 58, 111, 145, 209, 147,
                  222, 1, 103, 221, 180, 12, 186, 252, 27, 198, 253 >>
               :> << 164, 188, 215, 208, 232, 1, 90, 25, 180, 70, 30, 1, 181, 74, 190, 150, 247, 4, 38, 109, 158, 249, 245, 47,
                     83, 60, 39, 75, 124, 21, 13, 168 >>)
              @@
              (<< 226, 17, 160, 178, 182, 169, 138, 220, 65, 77, 254, 211, 143, 219, 94, 87, 139, 165, 25, 31, 195, 51, 236, 196,
                  134, 215, 130, 219, 104, 85, 170, 201, 8, 126, 180 >>
               :> << 13, 120, 39, 106, 238, 58, 247, 207, 185, 78, 243, 223, 136, 176, 33, 245, 127, 111, 11, 88, 56, 218, 248, 242,
                     170, 164, 51, 160, 101, 126, 140, 193 >>)
             )
            )
           )
          )
          @@
          (
           (
            (
             (<< 226, 17, 160, 178, 192, 172, 215, 55, 141, 226, 23, 144, 30, 250, 206, 28, 167, 48, 201, 132, 28, 248, 218, 214,
                 160, 13, 162, 94, 247, 46, 207, 135, 222, 201, 63 >>
              :> << 137, 42, 26, 62, 63, 134, 254, 120, 4, 160, 191, 195, 164, 234, 14, 151, 16, 41, 181, 154, 32, 83, 144, 138,
                    205, 132, 207, 210, 16, 113, 248, 253 >>)
             @@
             (<< 226, 17, 160, 179, 23, 245, 66, 241, 98, 189, 231, 209, 21, 74, 171, 114, 182, 75, 69, 218, 194, 41, 48, 205,
                 72, 34, 176, 211, 11, 105, 153, 35, 239, 48, 240 >>
              :> << 21, 221, 33, 217, 93, 135, 90, 254, 117, 146, 213, 172, 111, 71, 199, 251, 141, 206, 175, 169, 185, 161, 86, 3,
                    37, 38, 48, 213, 184, 221, 160, 188 >>)
            )
            @@
            (
             (<< 226, 17, 160, 179, 128, 247, 204, 92, 58, 234, 11, 94, 46, 68, 106, 138, 165, 23, 146, 221, 10, 73, 90, 145,
                 235, 29, 111, 170, 87, 188, 244, 115, 8, 135, 43 >>
              :> << 116, 109, 104, 156, 3, 156, 247, 46, 120, 71, 77, 184, 132, 248, 120, 142, 4, 190, 170, 207, 6, 166, 125, 120,
                    213, 152, 144, 63, 255, 31, 152, 188 >>)
             @@
             (
              (<< 226, 17, 160, 180, 66, 181, 70, 200, 183, 215, 77, 213, 245, 228, 181, 96, 106, 231, 195, 92, 27, 85, 195, 98,
                  28, 74, 206, 66, 147, 14, 216, 223, 239, 145, 121 >>
               :> << 59, 182, 107, 144, 105, 146, 117, 12, 23, 198, 205, 75, 66, 194, 236, 243, 230, 50, 153, 109, 113, 181, 41, 229,
                     41, 129, 33, 51, 207, 172, 189, 73 >>)
              @@
              (<< 226, 17, 160, 180, 204, 33, 137, 78, 12, 219, 102, 46, 137, 4, 20, 230, 24, 225, 49, 39, 43, 33, 103, 163,
                  232, 214, 194, 138, 226, 142, 16, 17, 71, 107, 50 >>
               :> << 65, 172, 172, 137, 23, 177, 221, 7, 212, 154, 242, 152, 216, 177, 110, 237, 130, 196, 45, 77, 159, 130, 214, 7,
                     236, 181, 9, 74, 61, 140, 204, 236 >>)
             )
            )
           )
           @@
           (
            (
             (<< 226, 17, 160, 181, 193, 119, 81, 49, 126, 8, 181, 164, 199, 37, 71, 123, 71, 50, 70, 177, 21, 124, 4, 191,
                 46, 48, 15, 225, 80, 176, 139, 193, 103, 134, 92 >>
              :> << 22, 35, 208, 233, 194, 97, 72, 33, 97, 140, 126, 183, 177, 221, 8, 219, 164, 78, 52, 191, 231, 191, 238, 121,
                    206, 237, 232, 138, 83, 21, 2, 210 >>)
             @@
             (<< 226, 17, 160, 182, 20, 13, 155, 141, 211, 157, 242, 95, 91, 182, 19, 244, 40, 158, 72, 196, 163, 234, 190, 146,
                 68, 81, 30, 153, 205, 132, 218, 19, 118, 208, 78 >>
              :> << 124, 61, 192, 15, 42, 140, 125, 130, 29, 119, 189, 56, 36, 157, 55, 148, 169, 121, 255, 102, 53, 77, 230, 185,
                    85, 218, 179, 209, 212, 67, 223, 241 >>)
            )
            @@
            (
             (<< 226, 17, 160, 183, 69, 143, 71, 188, 90, 159, 12, 49, 87, 57, 79, 245, 85, 126, 94, 249, 118, 84, 145, 69,
                 105, 173, 181, 250, 17, 172, 16, 104, 41, 29, 204 >>
              :> << 26, 159, 156, 22, 37, 63, 74, 145, 186, 52, 135, 35, 230, 2, 191, 110, 189, 144, 108, 110, 138, 48, 106, 197,
                    12, 249, 3, 187, 234, 16, 244, 28 >>)
             @@
             (
              (<< 226, 17, 160, 183, 191, 108, 95, 110, 33, 164, 31, 203, 202, 246, 245, 109, 42, 4, 71, 0, 194, 79, 141, 253,
                  249, 149, 108, 221, 199, 193, 70, 178, 147, 139, 229 >>
               :> << 84, 172, 59, 113, 147, 146, 19, 158, 17, 227, 162, 180, 107, 65, 97, 49, 99, 155, 32, 103, 170, 49, 221, 195,
                     35, 162, 234, 30, 14, 91, 65, 121 >>)
              @@
              (<< 226, 17, 160, 183, 214, 224, 159, 213, 141, 208, 224, 38, 232, 3, 210, 244, 70, 255, 221, 241, 25, 123, 223, 15,
                  157, 46, 66, 155, 85, 202, 57, 63, 238, 254, 231 >>
               :> << 59, 150, 83, 210, 14, 102, 237, 123, 195, 53, 192, 36, 169, 69, 25, 2, 189, 41, 222, 40, 103, 45, 233, 56,
                     40, 47, 248, 203, 134, 241, 115, 8 >>)
             )
            )
           )
          )
         )
         @@
         (
          (
           (
            (
             (<< 226, 17, 160, 183, 221, 67, 220, 220, 98, 75, 225, 135, 89, 157, 91, 83, 198, 64, 119, 182, 243, 101, 170, 56,
                 242, 141, 159, 206, 191, 68, 109, 213, 15, 166, 135 >>
              :> << 18, 120, 138, 188, 229, 116, 66, 24, 44, 98, 143, 85, 217, 58, 38, 42, 126, 112, 104, 176, 169, 33, 23, 253,
                    218, 115, 38, 248, 211, 127, 251, 179 >>)
             @@
             (<< 226, 17, 160, 185, 47, 233, 27, 6, 115, 118, 46, 56, 78, 194, 190, 228, 135, 76, 183, 3, 95, 96, 78, 242,
                 138, 203, 100, 68, 53, 172, 176, 71, 177, 70, 10 >>
              :> << 91, 178, 135, 231, 134, 214, 193, 69, 58, 228, 176, 1, 113, 1, 190, 210, 170, 123, 5, 71, 33, 8, 79, 124,
                    86, 37, 208, 179, 76, 18, 95, 253 >>)
            )
            @@
            (
             (<< 226, 17, 160, 185, 225, 136, 228, 185, 175, 158, 57, 108, 192, 181, 211, 216, 8, 199, 31, 21, 49, 17, 171, 154,
                 18, 27, 214, 196, 92, 236, 26, 241, 220, 2, 79 >>
              :> << 40, 19, 197, 223, 5, 197, 130, 238, 54, 43, 94, 36, 49, 243, 99, 115, 44, 152, 181, 48, 68, 147, 155, 147,
                    204, 49, 31, 17, 35, 164, 64, 129 >>)
             @@
             (
              (<< 226, 17, 160, 189, 42, 121, 1, 28, 18, 6, 66, 72, 145, 130, 71, 216, 3, 115, 178, 100, 8, 17, 196, 178,
                  40, 91, 142, 17, 82, 153, 220, 26, 226, 32, 25 >>
               :> << 177, 247, 65, 166, 252, 136, 23, 135, 110, 219, 53, 38, 70, 168, 0, 147, 152, 207, 254, 22, 143, 255, 201, 4,
                     6, 216, 41, 110, 174, 19, 39, 150 >>)
              @@
              (<< 226, 17, 160, 189, 128, 182, 111, 135, 205, 90, 246, 108, 232, 162, 188, 206, 218, 80, 2, 62, 152, 218, 102, 4,
                  43, 25, 106, 3, 66, 105, 109, 199, 83, 54, 208 >>
               :> << 61, 168, 96, 173, 108, 144, 253, 141, 167, 16, 87, 143, 104, 108, 57, 191, 180, 213, 72, 13, 195, 160, 225, 244,
                     248, 138, 61, 15, 15, 54, 147, 130 >>)
             )
            )
           )
           @@
           (
            (
             (<< 226, 17, 160, 190, 209, 174, 154, 60, 229, 255, 222, 121, 0, 180, 56, 125, 80, 229, 203, 123, 60, 97, 248, 143,
                 105, 38, 163, 156, 17, 185, 236, 176, 150, 175, 35 >>
              :> << 255, 147, 134, 252, 58, 88, 197, 179, 47, 225, 80, 14, 211, 77, 26, 128, 186, 244, 10, 68, 173, 3, 18, 249,
                    82, 183, 18, 47, 34, 254, 52, 55 >>)
             @@
             (<< 226, 17, 160, 191, 174, 244, 240, 111, 175, 161, 205, 245, 9, 71, 174, 160, 195, 202, 61, 182, 81, 116, 220, 209,
                 158, 22, 151, 86, 91, 160, 142, 137, 187, 96, 1 >>
              :> << 185, 14, 216, 74, 179, 79, 137, 43, 176, 158, 163, 40, 63, 108, 255, 80, 119, 87, 164, 217, 140, 136, 147, 166,
                    245, 165, 59, 203, 113, 169, 143, 8 >>)
            )
            @@
            (
             (<< 226, 17, 160, 192, 78, 148, 18, 187, 182, 162, 43, 145, 131, 103, 4, 92, 250, 128, 152, 122, 182, 68, 201, 208,
                 240, 209, 131, 166, 238, 47, 95, 30, 234, 39, 74 >>
              :> << 147, 117, 211, 119, 194, 168, 144, 202, 156, 127, 34, 126, 30, 24, 182, 87, 222, 172, 3, 222, 109, 60, 32, 152,
                    33, 88, 244, 46, 212, 80, 80, 44 >>)
             @@
             (
              (<< 226, 17, 160, 194, 157, 84, 126, 203, 34, 65, 135, 0, 79, 123, 23, 98, 18, 164, 217, 24, 225, 141, 112, 208,
                  31, 40, 226, 128, 184, 233, 66, 84, 237, 124, 58 >>
               :> << 141, 212, 140, 142, 54, 245, 176, 98, 246, 239, 44, 94, 112, 245, 10, 61, 42, 35, 153, 51, 61, 214, 36, 43,
                     184, 148, 35, 230, 173, 184, 174, 197 >>)
              @@
              (<< 226, 17, 160, 195, 132, 159, 185, 83, 80, 21, 148, 150, 18, 56, 169, 10, 56, 225, 93, 104, 140, 253, 164, 229,
                  179, 209, 90, 175, 127, 34, 247, 164, 24, 185, 197 >>
               :> << 110, 34, 50, 130, 230, 155, 214, 148, 128, 81, 213, 52, 25, 30, 200, 117, 113, 14, 45, 219, 13, 48, 141, 179,
                     182, 223, 90, 163, 146, 140, 183, 0 >>)
             )
            )
           )
          )
          @@
          (
           (
            (
             (<< 226, 17, 160, 197, 25, 185, 127, 110, 160, 102, 210, 128, 69, 6, 15, 218, 218, 128, 231, 209, 233, 11, 230, 224,
                 135, 38, 201, 187, 248, 1, 14, 11, 43, 30, 55 >>
              :> << 118, 252, 12, 67, 203, 90, 187, 119, 146, 73, 242, 17, 24, 239, 206, 182, 57, 166, 96, 100, 181, 187, 252, 246,
                    141, 136, 10, 210, 132, 14, 199, 110 >>)
             @@
             (<< 226, 17, 160, 200, 118, 48, 162, 186, 59, 47, 71, 104, 244, 165, 84, 108, 27, 15, 45, 89, 133, 208, 141, 78,
                 141, 126, 73, 191, 16, 48, 216, 32, 120, 183, 203 >>
              :> << 163, 1, 201, 199, 211, 97, 51, 224, 178, 150, 21, 230, 209, 54, 246, 218, 161, 134, 238, 178, 222, 87, 43, 180,
                    219, 39, 168, 90, 0, 216, 64, 176 >>)
            )
            @@
            (
             (<< 226, 17, 160, 200, 186, 60, 80, 129, 83, 216, 128, 89, 125, 131, 149, 254, 115, 215, 95, 37, 105, 125, 203, 138,
                 12, 54, 175, 239, 41, 211, 230, 134, 183, 94, 99 >>
              :> << 100, 175, 56, 165, 101, 118, 37, 225, 148, 57, 220, 234, 203, 163, 50, 6, 9, 255, 24, 174, 154, 195, 46, 150,
                    124, 117, 174, 92, 69, 6, 246, 155 >>)
             @@
             (
              (<< 226, 17, 160, 201, 58, 120, 248, 45, 249, 215, 169, 49, 158, 190, 119, 200, 152, 153, 145, 95, 81, 220, 88, 195,
                  21, 215, 191, 125, 5, 224, 179, 251, 222, 39, 186 >>
               :> << 13, 78, 76, 96, 182, 87, 0, 235, 134, 82, 214, 64, 153, 154, 74, 94, 208, 248, 51, 211, 116, 121, 185, 165,
                     215, 120, 168, 108, 27, 130, 76, 227 >>)
              @@
              (<< 226, 17, 160, 203, 104, 120, 43, 249, 114, 210, 193, 168, 47, 248, 101, 235, 57, 38, 239, 96, 70, 9, 185, 7,
                  67, 135, 254, 120, 29, 189, 188, 33, 88, 9, 57 >>
               :> << 111, 175, 174, 79, 78, 144, 208, 22, 39, 133, 70, 244, 1, 50, 154, 177, 6, 221, 147, 179, 97, 11, 143, 114,
                     113, 249, 28, 160, 119, 141, 135, 134 >>)
             )
            )
           )
           @@
           (
            (
             (<< 226, 17, 160, 204, 141, 15, 119, 177, 11, 167, 232, 77, 143, 184, 29, 109, 245, 244, 221, 232, 10, 53, 150, 165,
                 15, 13, 196, 53, 75, 61, 78, 117, 216, 43, 109 >>
              :> << 93, 12, 245, 213, 237, 139, 174, 65, 82, 182, 86, 111, 146, 254, 92, 203, 142, 190, 85, 127, 165, 89, 125, 223,
                    112, 9, 70, 67, 81, 253, 139, 36 >>)
             @@
             (<< 226, 17, 160, 205, 184, 227, 132, 72, 8, 106, 173, 6, 4, 114, 16, 111, 211, 180, 39, 142, 141, 232, 236, 0,
                 59, 185, 176, 13, 111, 65, 118, 180, 60, 22, 202 >>
              :> << 79, 77, 151, 76, 225, 14, 50, 190, 142, 47, 46, 140, 111, 62, 155, 31, 3, 47, 176, 11, 188, 124, 29, 211,
                    134, 69, 187, 147, 211, 210, 188, 68 >>)
            )
            @@
            (
             (<< 226, 17, 160, 206, 17, 197, 45, 243, 183, 12, 186, 182, 16, 13, 43, 58, 33, 39, 214, 143, 203, 179, 43, 140,
                 189, 152, 168, 150, 24, 223, 117, 31, 93, 60, 191 >>
              :> << 91, 154, 199, 173, 236, 232, 196, 118, 172, 101, 90, 141, 218, 133, 58, 129, 65, 127, 223, 79, 156, 163, 41, 77,
                    16, 11, 223, 194, 45, 101, 111, 8 >>)
             @@
             (
              (<< 226, 17, 160, 206, 105, 250, 144, 243, 143, 102, 142, 112, 51, 141, 142, 209, 24, 13, 186, 149, 57, 45, 95, 11,
                  3, 92, 7, 180, 79, 96, 138, 106, 83, 160, 232 >>
               :> << 103, 104, 103, 53, 154, 175, 118, 162, 196, 117, 54, 33, 134, 25, 131, 77, 6, 169, 33, 179, 60, 15, 133, 246,
                     102, 88, 133, 63, 67, 148, 164, 15 >>)
              @@
              (<< 226, 17, 160, 207, 75, 176, 218, 156, 36, 5, 196, 242, 254, 11, 9, 179, 208, 237, 192, 45, 238, 222, 35, 81,
                  93, 134, 229, 194, 34, 132, 10, 22, 114, 249, 93 >>
               :> << 11, 158, 165, 151, 220, 152, 225, 238, 151, 189, 59, 116, 226, 54, 59, 107, 132, 45, 96, 55, 198, 21, 170, 212,
                     190, 228, 159, 80, 81, 152, 6, 55 >>)
             )
            )
           )
          )
         )
        )
       )
       @@
       (
        (
         (
          (
           (
            (
             (<< 226, 17, 160, 209, 167, 215, 50, 150, 99, 228, 168, 186, 140, 74, 211, 12, 251, 19, 108, 64, 99, 29, 115, 251,
                 100, 42, 12, 146, 86, 137, 199, 116, 69, 163, 210 >>
              :> << 50, 77, 59, 7, 161, 132, 192, 24, 141, 73, 35, 181, 226, 54, 36, 143, 146, 209, 153, 49, 205, 249, 232, 237,
                    82, 114, 247, 210, 149, 175, 168, 98 >>)
             @@
             (<< 226, 17, 160, 209, 251, 154, 184, 170, 191, 230, 94, 13, 172, 110, 244, 247, 58, 89, 254, 120, 156, 239, 48, 19,
                 185, 202, 158, 30, 96, 76, 191, 228, 210, 221, 175 >>
              :> << 32, 169, 10, 8, 174, 4, 35, 148, 129, 43, 222, 216, 54, 28, 183, 130, 45, 1, 240, 231, 180, 248, 76, 233,
                    43, 212, 97, 255, 182, 2, 179, 240 >>)
            )
            @@
            (
             (<< 226, 17, 160, 212, 67, 177, 7, 159, 127, 244, 21, 121, 79, 175, 242, 1, 57, 228, 15, 195, 127, 243, 191, 50,
                 223, 135, 24, 244, 49, 61, 253, 123, 231, 56, 93 >>
              :> << 48, 9, 53, 49, 193, 236, 58, 97, 213, 102, 102, 154, 176, 220, 97, 240, 136, 104, 52, 71, 86, 75, 199, 235,
                    63, 149, 171, 89, 229, 201, 203, 118 >>)
             @@
             (
              (<< 226, 17, 160, 213, 38, 131, 225, 142, 91, 76, 192, 226, 210, 242, 20, 253, 71, 249, 94, 76, 73, 40, 60, 146,
                  166, 90, 88, 207, 31, 4, 235, 9, 45, 154, 237 >>
               :> << 163, 64, 9, 188, 49, 148, 144, 148, 17, 100, 143, 255, 12, 113, 93, 60, 188, 12, 42, 77, 103, 169, 236, 142,
                     139, 54, 37, 128, 250, 193, 244, 243 >>)
              @@
              (<< 226, 17, 160, 213, 158, 209, 212, 74, 39, 208, 249, 129, 198, 28, 122, 66, 165, 251, 53, 211, 217, 40, 76, 34,
                  249, 243, 106, 253, 47, 213, 55, 36, 37, 88, 175 >>
               :> << 209, 115, 128, 93, 48, 58, 179, 193, 104, 14, 164, 144, 102, 214, 158, 200, 174, 25, 164, 55, 144, 40, 142, 49,
                     128, 206, 27, 94, 158, 37, 155, 173 >>)
             )
            )
           )
           @@
           (
            (
             (<< 226, 17, 160, 215, 133, 177, 175, 70, 14, 23, 98, 71, 101, 235, 46, 123, 155, 218, 113, 121, 114, 4, 29, 82,
                 161, 84, 49, 27, 238, 29, 146, 210, 67, 118, 111 >>
              :> << 239, 246, 93, 10, 242, 196, 94, 173, 244, 118, 173, 62, 228, 187, 18, 181, 89, 187, 19, 30, 99, 253, 82, 227,
                    17, 242, 70, 3, 103, 129, 184, 36 >>)
             @@
             (<< 226, 17, 160, 216, 61, 123, 211, 212, 30, 230, 114, 123, 102, 196, 47, 252, 248, 120, 205, 37, 86, 157, 130, 47,
                 135, 42, 171, 150, 43, 24, 187, 36, 179, 218, 241 >>
              :> << 208, 190, 155, 142, 246, 158, 213, 67, 87, 238, 118, 189, 225, 198, 173, 207, 221, 202, 145, 28, 235, 97, 140, 26,
                    77, 69, 103, 76, 26, 104, 150, 181 >>)
            )
            @@
            (
             (<< 226, 17, 160, 216, 219, 135, 14, 154, 48, 212, 79, 147, 19, 177, 100, 246, 233, 121, 219, 48, 123, 80, 149, 74,
                 68, 69, 167, 208, 207, 127, 254, 148, 125, 39, 56 >>
              :> << 169, 254, 252, 15, 64, 156, 19, 109, 82, 26, 27, 110, 217, 253, 18, 102, 97, 154, 231, 90, 10, 85, 215, 98,
                    212, 191, 82, 31, 173, 171, 106, 214 >>)
             @@
             (
              (<< 226, 17, 160, 217, 28, 50, 4, 151, 52, 77, 89, 211, 222, 87, 170, 54, 255, 152, 204, 25, 180, 0, 244, 183,
                  18, 249, 62, 72, 110, 200, 239, 16, 82, 141, 154 >>
               :> << 251, 210, 203, 165, 143, 195, 250, 34, 169, 97, 67, 31, 243, 197, 94, 1, 238, 144, 137, 82, 6, 46, 65, 233,
                     202, 75, 2, 161, 13, 166, 68, 145 >>)
              @@
              (<< 226, 17, 160, 217, 110, 136, 147, 9, 99, 240, 197, 90, 108, 97, 20, 95, 78, 92, 20, 199, 73, 127, 212, 160,
                  12, 134, 141, 220, 161, 164, 235, 56, 185, 179, 49 >>
               :> << 177, 147, 214, 61, 71, 221, 186, 171, 83, 82, 8, 39, 140, 39, 146, 37, 234, 115, 147, 70, 26, 211, 107, 153,
                     216, 183, 191, 173, 55, 65, 205, 224 >>)
             )
            )
           )
          )
          @@
          (
           (
            (
             (<< 226, 17, 160, 217, 220, 243, 63, 189, 181, 64, 192, 183, 14, 187, 35, 42, 28, 230, 196, 149, 145, 98, 91, 233,
                 151, 126, 209, 79, 162, 230, 95, 174, 196, 28, 82 >>
              :> << 140, 195, 9, 187, 221, 142, 33, 74, 96, 241, 195, 163, 55, 118, 183, 213, 87, 102, 31, 247, 134, 66, 240, 125,
                    114, 63, 149, 172, 31, 127, 90, 233 >>)
             @@
             (<< 226, 17, 160, 219, 207, 18, 235, 39, 197, 237, 172, 217, 173, 54, 201, 55, 71, 227, 146, 135, 214, 135, 129, 41,
                 186, 248, 176, 59, 255, 159, 241, 172, 222, 42, 195 >>
              :> << 128, 112, 21, 147, 51, 133, 166, 119, 195, 24, 42, 121, 120, 152, 14, 135, 182, 182, 80, 65, 93, 155, 107, 49,
                    235, 60, 163, 40, 98, 206, 76, 25 >>)
            )
            @@
            (
             (<< 226, 17, 160, 221, 2, 163, 230, 195, 248, 13, 69, 156, 226, 118, 8, 112, 79, 178, 193, 239, 56, 92, 85, 174,
                 68, 242, 67, 8, 87, 131, 154, 225, 43, 35, 79 >>
              :> << 116, 189, 55, 240, 200, 218, 41, 62, 111, 56, 222, 66, 39, 175, 96, 19, 245, 193, 71, 242, 42, 198, 210, 68,
                    210, 21, 0, 26, 155, 24, 214, 187 >>)
             @@
             (
              (<< 226, 17, 160, 221, 101, 33, 65, 105, 223, 231, 128, 199, 7, 62, 136, 179, 19, 50, 248, 238, 119, 213, 93, 75,
                  237, 164, 253, 188, 127, 202, 96, 165, 130, 199, 204 >>
               :> << 229, 18, 199, 185, 220, 30, 11, 181, 134, 107, 31, 178, 208, 22, 174, 127, 130, 237, 2, 60, 189, 192, 50, 8,
                     202, 128, 215, 91, 210, 224, 56, 201 >>)
              @@
              (<< 226, 17, 160, 222, 164, 75, 92, 202, 177, 10, 49, 239, 155, 132, 249, 246, 22, 116, 55, 48, 6, 134, 13, 254,
                  241, 204, 234, 25, 131, 92, 248, 169, 143, 147, 1 >>
               :> << 133, 214, 72, 207, 39, 33, 22, 213, 201, 101, 4, 154, 119, 186, 198, 75, 207, 129, 120, 237, 125, 190, 227, 183,
                     51, 219, 44, 155, 145, 124, 73, 29 >>)
             )
            )
           )
           @@
           (
            (
             (<< 226, 17, 160, 224, 83, 56, 125, 169, 77, 9, 57, 226, 96, 12, 123, 230, 132, 107, 246, 196, 122, 182, 252, 163,
                 159, 142, 130, 28, 103, 105, 171, 88, 246, 122, 178 >>
              :> << 134, 44, 64, 167, 103, 219, 148, 239, 219, 68, 123, 143, 106, 244, 165, 222, 226, 132, 225, 232, 85, 88, 152, 205,
                    196, 200, 31, 64, 134, 221, 255, 1 >>)
             @@
             (<< 226, 17, 160, 224, 178, 175, 235, 0, 82, 143, 51, 118, 29, 31, 230, 148, 114, 46, 116, 171, 34, 235, 134, 29,
                 117, 59, 166, 185, 153, 170, 159, 183, 232, 100, 201 >>
              :> << 51, 75, 102, 120, 154, 181, 125, 50, 32, 64, 0, 214, 192, 183, 5, 118, 127, 42, 171, 212, 125, 152, 116, 138,
                    209, 64, 205, 94, 47, 62, 50, 26 >>)
            )
            @@
            (
             (<< 226, 17, 160, 224, 244, 165, 216, 218, 204, 80, 112, 89, 161, 174, 180, 140, 248, 186, 12, 125, 234, 198, 211, 219,
                 114, 218, 127, 138, 143, 129, 163, 123, 91, 225, 177 >>
              :> << 20, 176, 67, 254, 32, 109, 25, 112, 234, 102, 167, 124, 229, 216, 39, 86, 58, 186, 114, 148, 34, 81, 32, 149,
                    75, 70, 157, 100, 80, 209, 81, 194 >>)
             @@
             (
              (<< 226, 17, 160, 225, 16, 173, 64, 34, 213, 42, 16, 78, 161, 95, 100, 238, 6, 56, 116, 17, 6, 249, 204, 207,
                  135, 182, 232, 142, 227, 87, 116, 191, 126, 254, 16 >>
               :> << 97, 196, 196, 33, 84, 85, 154, 9, 110, 234, 29, 163, 135, 51, 5, 75, 0, 157, 5, 113, 51, 40, 192, 114,
                     168, 101, 80, 231, 153, 18, 96, 22 >>)
              @@
              (<< 226, 17, 160, 225, 65, 216, 96, 186, 244, 136, 24, 195, 123, 203, 25, 242, 55, 9, 151, 7, 152, 118, 91, 190,
                  77, 176, 87, 219, 209, 241, 246, 13, 113, 85, 18 >>
               :> << 239, 93, 0, 121, 39, 38, 70, 236, 89, 184, 170, 51, 90, 95, 12, 27, 187, 37, 182, 89, 199, 239, 120, 136,
                     119, 84, 223, 9, 4, 198, 23, 19 >>)
             )
            )
           )
          )
         )
         @@
         (
          (
           (
            (
             (<< 226, 17, 160, 225, 99, 14, 229, 167, 213, 16, 71, 245, 24, 214, 252, 81, 84, 91, 212, 169, 214, 183, 21, 223,
                 220, 152, 40, 244, 80, 202, 16, 217, 129, 250, 85 >>
              :> << 197, 134, 78, 99, 8, 40, 189, 246, 240, 60, 210, 124, 25, 180, 215, 64, 126, 222, 124, 206, 106, 89, 50, 183,
                    139, 94, 41, 104, 11, 201, 133, 129 >>)
             @@
             (<< 226, 17, 160, 229, 78, 241, 249, 110, 139, 46, 178, 157, 104, 111, 124, 21, 78, 138, 240, 162, 114, 41, 168, 171,
                 238, 54, 29, 163, 125, 77, 112, 89, 197, 0, 77 >>
              :> << 176, 43, 166, 102, 65, 145, 51, 19, 76, 66, 225, 44, 90, 48, 231, 42, 176, 14, 197, 105, 34, 21, 7, 7,
                    232, 6, 116, 4, 92, 79, 83, 176 >>)
            )
            @@
            (
             (<< 226, 17, 160, 231, 103, 166, 61, 232, 185, 121, 153, 129, 1, 242, 219, 95, 202, 70, 179, 130, 236, 34, 93, 81,
                 44, 93, 32, 246, 224, 236, 101, 75, 222, 75, 5 >>
              :> << 244, 122, 70, 30, 140, 12, 146, 79, 182, 80, 11, 231, 104, 64, 5, 88, 87, 12, 37, 168, 226, 127, 250, 90,
                    65, 27, 92, 1, 85, 170, 120, 70 >>)
             @@
             (
              (<< 226, 17, 160, 232, 129, 245, 58, 246, 156, 75, 148, 180, 50, 2, 199, 155, 152, 12, 184, 59, 52, 43, 72, 189,
                  76, 53, 158, 147, 10, 95, 42, 152, 241, 242, 66 >>
               :> << 170, 55, 80, 6, 245, 163, 42, 176, 74, 186, 139, 107, 15, 212, 83, 215, 221, 144, 75, 190, 80, 216, 7, 104,
                     6, 17, 140, 97, 69, 60, 63, 96 >>)
              @@
              (<< 226, 17, 160, 233, 239, 138, 178, 200, 169, 147, 216, 52, 114, 196, 85, 117, 209, 50, 16, 3, 127, 27, 74, 237,
                  151, 57, 88, 118, 57, 251, 96, 211, 98, 145, 237 >>
               :> << 84, 249, 2, 21, 117, 9, 42, 190, 111, 3, 182, 60, 161, 51, 251, 85, 42, 146, 225, 141, 29, 209, 79, 139,
                     132, 67, 118, 92, 33, 139, 125, 184 >>)
             )
            )
           )
           @@
           (
            (
             (<< 226, 17, 160, 234, 156, 41, 65, 76, 12, 7, 189, 20, 109, 78, 91, 75, 167, 139, 26, 152, 182, 180, 90, 134,
                 87, 206, 193, 224, 115, 199, 212, 57, 191, 38, 4 >>
              :> << 5, 213, 62, 238, 112, 10, 26, 41, 55, 137, 113, 120, 115, 4, 56, 208, 84, 16, 83, 204, 224, 204, 123, 174,
                    173, 124, 9, 254, 99, 89, 6, 65 >>)
             @@
             (<< 226, 17, 160, 236, 54, 86, 42, 91, 210, 48, 156, 197, 109, 188, 98, 215, 121, 87, 62, 9, 92, 134, 53, 183,
                 157, 181, 7, 18, 157, 52, 122, 248, 222, 162, 84 >>
              :> << 94, 62, 75, 99, 137, 126, 52, 93, 13, 189, 143, 219, 156, 219, 48, 0, 175, 190, 142, 22, 149, 192, 90, 102,
                    194, 193, 103, 48, 111, 212, 52, 168 >>)
            )
            @@
            (
             (<< 226, 17, 160, 236, 155, 102, 143, 77, 143, 163, 233, 232, 235, 111, 237, 84, 97, 94, 242, 84, 50, 164, 152, 224,
                 130, 204, 207, 240, 178, 129, 184, 191, 0, 60, 136 >>
              :> << 251, 1, 31, 173, 168, 177, 145, 240, 68, 110, 95, 131, 97, 202, 140, 139, 240, 173, 197, 213, 67, 151, 25, 41,
                    72, 20, 105, 207, 140, 80, 48, 214 >>)
             @@
             (
              (<< 226, 17, 160, 237, 108, 250, 33, 12, 213, 95, 127, 212, 153, 217, 97, 194, 163, 129, 107, 228, 138, 54, 210, 51,
                  29, 187, 50, 7, 165, 173, 225, 39, 42, 103, 110 >>
               :> << 247, 163, 209, 0, 3, 209, 245, 69, 244, 102, 142, 64, 41, 144, 148, 91, 42, 116, 237, 248, 136, 62, 220, 34,
                     221, 169, 153, 35, 103, 196, 33, 200 >>)
              @@
              (<< 226, 17, 160, 237, 204, 219, 228, 55, 207, 164, 155, 250, 77, 24, 111, 217, 28, 160, 37, 123, 146, 10, 236, 6,
                  23, 173, 202, 14, 152, 134, 108, 215, 209, 151, 213 >>
               :> << 61, 90, 11, 200, 156, 141, 114, 91, 99, 163, 139, 35, 253, 93, 141, 62, 129, 16, 198, 173, 209, 182, 15, 21,
                     202, 184, 165, 58, 173, 150, 255, 97 >>)
             )
            )
           )
          )
          @@
          (
           (
            (
             (<< 226, 17, 160, 238, 243, 119, 82, 162, 133, 132, 31, 176, 223, 2, 207, 38, 32, 234, 198, 219, 16, 150, 105, 42,
                 129, 56, 58, 31, 61, 138, 119, 41, 158, 90, 193 >>
              :> << 106, 217, 14, 33, 41, 73, 65, 94, 252, 160, 146, 236, 53, 228, 151, 43, 48, 158, 23, 238, 128, 112, 22, 77,
                    85, 56, 143, 187, 192, 90, 249, 159 >>)
             @@
             (<< 226, 17, 160, 240, 8, 45, 112, 191, 103, 82, 30, 144, 244, 30, 233, 78, 4, 115, 206, 59, 153, 30, 66, 0,
                 158, 212, 85, 20, 171, 72, 197, 162, 97, 34, 121 >>
              :> << 167, 255, 42, 152, 102, 86, 144, 123, 123, 212, 68, 25, 221, 5, 22, 93, 153, 179, 174, 86, 174, 195, 123, 149,
                    195, 62, 135, 68, 166, 187, 38, 244 >>)
            )
            @@
            (
             (<< 226, 17, 160, 241, 239, 77, 25, 17, 147, 141, 24, 30, 234, 13, 113, 97, 228, 70, 96, 191, 81, 195, 58, 145,
                 148, 26, 139, 87, 154, 109, 55, 228, 120, 240, 243 >>
              :> << 20, 251, 220, 30, 227, 30, 42, 141, 61, 117, 155, 109, 22, 57, 238, 110, 57, 33, 87, 32, 142, 153, 237, 106,
                    56, 102, 235, 13, 8, 112, 252, 22 >>)
             @@
             (
              (<< 226, 17, 160, 242, 109, 129, 36, 105, 197, 249, 27, 220, 58, 187, 32, 121, 221, 61, 42, 175, 247, 12, 220, 33,
                  214, 127, 152, 170, 91, 125, 38, 115, 67, 188, 235 >>
               :> << 128, 106, 231, 45, 83, 47, 251, 107, 228, 220, 50, 115, 153, 170, 88, 205, 101, 51, 196, 69, 152, 6, 44, 13,
                     155, 102, 238, 197, 24, 125, 7, 84 >>)
              @@
              (<< 226, 17, 160, 243, 87, 234, 95, 196, 253, 89, 183, 81, 176, 25, 190, 171, 94, 236, 244, 62, 242, 103, 15, 168,
                  100, 213, 52, 194, 213, 66, 102, 121, 203, 12, 205 >>
               :> << 31, 30, 255, 82, 5, 85, 192, 178, 51, 160, 46, 154, 65, 203, 207, 151, 78, 181, 252, 107, 180, 142, 132, 155,
                     227, 189, 58, 116, 137, 71, 44, 65 >>)
             )
            )
           )
           @@
           (
            (
             (<< 226, 17, 160, 244, 248, 240, 123, 77, 63, 156, 212, 22, 192, 83, 100, 35, 205, 218, 199, 178, 202, 238, 139, 186,
                 26, 188, 206, 94, 32, 68, 114, 106, 240, 90, 159 >>
              :> << 108, 24, 206, 195, 216, 21, 231, 169, 134, 91, 1, 79, 7, 142, 216, 154, 236, 230, 0, 141, 61, 115, 104, 108,
                    81, 173, 105, 104, 30, 4, 230, 239 >>)
             @@
             (<< 226, 17, 160, 246, 77, 95, 42, 41, 220, 207, 184, 122, 79, 223, 210, 101, 238, 200, 138, 148, 21, 70, 4, 150,
                 204, 112, 189, 22, 157, 76, 38, 225, 249, 231, 207 >>
              :> << 67, 127, 72, 247, 184, 85, 183, 216, 54, 141, 96, 126, 225, 85, 174, 127, 95, 14, 226, 138, 96, 128, 238, 160,
                    194, 192, 115, 182, 228, 158, 244, 12 >>)
            )
            @@
            (
             (<< 226, 17, 160, 249, 28, 155, 12, 233, 43, 21, 246, 87, 215, 30, 75, 229, 101, 32, 140, 149, 112, 234, 211, 208,
                 206, 213, 191, 191, 188, 56, 92, 246, 244, 168, 245 >>
              :> << 46, 224, 246, 24, 12, 33, 24, 124, 131, 113, 9, 165, 134, 40, 138, 103, 5, 234, 53, 121, 19, 160, 200, 232,
                    15, 170, 103, 211, 238, 241, 199, 246 >>)
             @@
             (
              (<< 226, 17, 160, 249, 107, 132, 219, 212, 116, 231, 43, 140, 143, 92, 205, 185, 161, 128, 35, 145, 110, 7, 2, 61,
                  140, 151, 247, 201, 146, 99, 60, 191, 244, 173, 234 >>
               :> << 15, 203, 187, 173, 0, 174, 44, 195, 62, 249, 236, 155, 204, 44, 11, 35, 151, 32, 217, 149, 65, 110, 103, 119,
                     135, 57, 2, 57, 154, 195, 240, 1 >>)
              @@
              (<< 226, 17, 160, 252, 200, 250, 51, 178, 109, 219, 130, 17, 30, 218, 89, 16, 96, 19, 17, 215, 227, 90, 23, 197,
                  238, 130, 57, 148, 235, 13, 34, 195, 110, 185, 165 >>
               :> << 50, 132, 210, 42, 79, 72, 192, 128, 187, 2, 158, 58, 82, 89, 31, 34, 27, 88, 241, 220, 213, 76, 40, 38,
                     157, 208, 211, 188, 60, 119, 19, 152 >>)
             )
            )
           )
          )
         )
        )
        @@
        (
         (
          (
           (
            (
             (<< 226, 17, 160, 252, 225, 146, 218, 100, 84, 61, 253, 240, 72, 31, 246, 28, 219, 125, 238, 115, 33, 200, 146, 148,
                 183, 247, 169, 251, 251, 31, 26, 18, 164, 20, 45 >>
              :> << 43, 69, 70, 98, 79, 59, 233, 129, 26, 115, 182, 203, 221, 140, 135, 133, 176, 202, 80, 142, 68, 21, 221, 94,
                    206, 117, 196, 51, 216, 253, 203, 239 >>)
             @@
             (<< 226, 17, 160, 253, 127, 49, 30, 44, 207, 233, 215, 202, 253, 131, 33, 255, 120, 25, 107, 206, 229, 248, 16, 24,
                 18, 251, 158, 147, 130, 224, 59, 153, 12, 156, 20 >>
              :> << 205, 149, 41, 122, 200, 45, 138, 92, 4, 228, 47, 92, 68, 26, 233, 43, 143, 120, 47, 88, 220, 137, 57, 10,
                    192, 83, 141, 42, 143, 158, 237, 76 >>)
            )
            @@
            (
             (<< 226, 17, 160, 254, 70, 137, 225, 2, 153, 154, 63, 205, 48, 185, 134, 240, 52, 8, 25, 65, 242, 131, 198, 115,
                 10, 4, 87, 194, 28, 167, 119, 225, 103, 193, 44 >>
              :> << 110, 211, 179, 72, 136, 133, 6, 200, 54, 239, 157, 237, 108, 135, 97, 50, 186, 73, 226, 0, 142, 236, 71, 216,
                    34, 143, 211, 249, 74, 137, 81, 174 >>)
             @@
             (
              (<< 226, 32, 160, 170, 170, 170, 170, 170, 170, 170, 170, 170, 170, 170, 170, 170, 170, 170, 170, 170, 170, 170, 170, 170,
                  170, 170, 170, 170, 170, 170, 170, 170, 170, 170, 170 >>
               :> << 237, 204, 219, 228, 55, 207, 164, 155, 250, 77, 24, 111, 217, 28, 160, 37, 123, 146, 10, 236, 6, 23, 173, 202,
                     14, 152, 134, 108, 215, 209, 151, 213 >>)
              @@
              (<< 226, 49, 160, 170, 170, 170, 170, 170, 170, 170, 170, 170, 170, 170, 170, 170, 170, 170, 170, 170, 170, 170, 170, 170,
                  170, 170, 170, 170, 170, 170, 170, 170, 170, 170, 170 >>
               :> << 215, 133, 177, 175, 70, 14, 23, 98, 71, 101, 235, 46, 123, 155, 218, 113, 121, 114, 4, 29, 82, 161, 84, 49,
                     27, 238, 29, 146, 210, 67, 118, 111 >>)
             )
            )
           )
           @@
           (
            (
             (<< 226, 50, 160, 170, 170, 170, 170, 170, 170, 170, 170, 170, 170, 170, 170, 170, 170, 170, 170, 170, 170, 170, 170, 170,
                 170, 170, 170, 170, 170, 170, 170, 170, 170, 170, 170 >>
              :> << 105, 222, 156, 178, 92, 16, 224, 192, 239, 211, 36, 109, 179, 16, 217, 220, 137, 72, 32, 38, 194, 160, 220, 110,
                    146, 14, 202, 243, 37, 128, 121, 190 >>)
             @@
             (<< 228, 17, 226, 49, 160, 170, 170, 170, 170, 170, 170, 170, 170, 170, 170, 170, 170, 170, 170, 170, 170, 170, 170, 170,
                 170, 170, 170, 170, 170, 170, 170, 170, 170, 170, 170, 170, 170 >>
              :> << 100, 38, 69, 40, 190, 245, 8, 168, 169, 190, 12, 152, 89, 255, 127, 73, 46, 123, 214, 144, 116, 149, 210, 131,
                    210, 94, 98, 238, 63, 73, 1, 78 >>)
            )
            @@
            (
             (<< 228, 130, 0, 17, 160, 1, 189, 157, 160, 165, 125, 95, 123, 206, 29, 82, 95, 6, 58, 243, 119, 55, 60, 251,
                 39, 70, 119, 20, 21, 4, 97, 234, 2, 4, 201, 254, 243 >>
              :> << 133, 45, 124, 5, 213, 2, 158, 128, 97, 10, 105, 115, 28, 32, 8, 49, 216, 74, 53, 34, 0, 84, 185, 8,
                    14, 48, 82, 81, 73, 217, 247, 95 >>)
             @@
             (
              (<< 228, 130, 0, 17, 160, 15, 210, 121, 87, 19, 39, 9, 66, 180, 2, 58, 251, 48, 178, 87, 132, 197, 136, 32,
                  191, 237, 14, 224, 49, 250, 1, 163, 166, 100, 35, 60, 19 >>
               :> << 85, 101, 41, 146, 164, 136, 180, 194, 213, 192, 36, 186, 33, 9, 177, 190, 117, 41, 110, 127, 7, 114, 61, 13,
                     192, 47, 32, 147, 82, 111, 125, 133 >>)
              @@
              (<< 228, 130, 0, 17, 160, 101, 217, 52, 11, 204, 251, 208, 88, 44, 75, 121, 112, 138, 247, 197, 140, 203, 240, 115,
                  227, 95, 29, 158, 162, 86, 151, 40, 37, 213, 155, 5, 240 >>
               :> << 186, 74, 64, 245, 120, 55, 144, 3, 89, 52, 7, 148, 134, 117, 51, 229, 178, 170, 209, 153, 217, 137, 69, 206,
                     29, 40, 162, 145, 7, 235, 232, 66 >>)
             )
            )
           )
          )
          @@
          (
           (
            (
             (<< 228, 130, 0, 17, 160, 121, 124, 107, 41, 28, 38, 158, 50, 23, 21, 102, 151, 169, 130, 35, 81, 111, 128, 26,
                 154, 40, 153, 53, 31, 139, 203, 208, 144, 18, 82, 72, 118 >>
              :> << 71, 212, 171, 250, 9, 217, 253, 220, 165, 172, 192, 219, 3, 70, 221, 79, 103, 168, 217, 190, 195, 197, 121, 223,
                    231, 85, 56, 23, 69, 38, 76, 18 >>)
             @@
             (<< 228, 130, 0, 17, 160, 136, 249, 180, 218, 37, 94, 62, 145, 141, 125, 123, 177, 163, 177, 16, 211, 181, 24, 141,
                 116, 25, 251, 68, 73, 39, 141, 142, 23, 152, 65, 159, 82 >>
              :> << 192, 147, 29, 92, 210, 124, 25, 103, 237, 91, 116, 163, 46, 205, 205, 154, 174, 162, 147, 58, 153, 179, 2, 211,
                    102, 137, 54, 136, 186, 150, 20, 15 >>)
            )
            @@
            (
             (<< 228, 130, 0, 17, 160, 160, 55, 87, 191, 65, 234, 3, 59, 73, 239, 113, 134, 143, 229, 234, 122, 152, 215, 191,
                 44, 162, 226, 64, 178, 168, 152, 185, 85, 223, 146, 16, 123 >>
              :> << 59, 43, 136, 71, 68, 245, 156, 228, 42, 74, 37, 240, 119, 25, 254, 240, 64, 18, 217, 175, 163, 165, 170, 0,
                    254, 75, 186, 74, 188, 8, 70, 119 >>)
             @@
             (
              (<< 228, 130, 0, 17, 160, 219, 234, 87, 12, 189, 96, 101, 213, 252, 102, 211, 178, 212, 49, 240, 83, 141, 108, 45,
                  230, 213, 229, 98, 253, 208, 170, 185, 132, 7, 166, 10, 145 >>
               :> << 144, 28, 76, 1, 17, 192, 217, 79, 150, 17, 186, 2, 63, 2, 245, 142, 188, 251, 197, 222, 196, 170, 245, 4,
                     51, 56, 164, 35, 29, 24, 119, 148 >>)
              @@
              (<< 228, 130, 0, 17, 160, 222, 164, 75, 92, 202, 177, 10, 49, 239, 155, 132, 249, 246, 22, 116, 55, 48, 6, 134,
                  13, 254, 241, 204, 234, 25, 131, 92, 248, 169, 143, 147, 1 >>
               :> << 242, 117, 136, 12, 33, 158, 100, 233, 87, 213, 69, 13, 210, 142, 192, 78, 101, 8, 242, 183, 162, 183, 195, 200,
                     200, 191, 66, 3, 14, 243, 248, 55 >>)
             )
            )
           )
           @@
           (
            (
             (<< 228, 130, 0, 18, 160, 15, 210, 121, 87, 19, 39, 9, 66, 180, 2, 58, 251, 48, 178, 87, 132, 197, 136, 32,
                 191, 237, 14, 224, 49, 250, 1, 163, 166, 100, 35, 60, 19 >>
              :> << 244, 215, 45, 171, 74, 62, 224, 245, 229, 240, 179, 226, 201, 56, 18, 179, 105, 63, 240, 11, 49, 147, 49, 89,
                    31, 3, 176, 197, 190, 190, 218, 44 >>)
             @@
             (<< 228, 130, 0, 18, 160, 88, 229, 152, 11, 171, 205, 76, 6, 151, 0, 132, 63, 158, 59, 25, 97, 35, 48, 135,
                 27, 208, 85, 193, 111, 231, 242, 142, 9, 140, 108, 232, 148 >>
              :> << 123, 14, 97, 175, 200, 186, 236, 85, 88, 239, 61, 215, 133, 141, 193, 29, 254, 46, 233, 38, 178, 145, 178, 34,
                    217, 65, 185, 223, 174, 177, 138, 90 >>)
            )
            @@
            (
             (<< 228, 130, 0, 18, 160, 98, 73, 234, 54, 131, 64, 1, 163, 57, 155, 97, 224, 8, 50, 79, 206, 164, 65, 7,
                 64, 29, 174, 94, 33, 246, 138, 173, 89, 184, 182, 45, 143 >>
              :> << 97, 163, 180, 252, 124, 134, 146, 79, 61, 92, 49, 166, 247, 12, 160, 122, 163, 240, 82, 182, 105, 58, 91, 77,
                    129, 85, 126, 121, 248, 63, 109, 15 >>)
             @@
             (
              (<< 228, 130, 0, 18, 160, 101, 217, 52, 11, 204, 251, 208, 88, 44, 75, 121, 112, 138, 247, 197, 140, 203, 240, 115,
                  227, 95, 29, 158, 162, 86, 151, 40, 37, 213, 155, 5, 240 >>
               :> << 249, 223, 98, 11, 160, 175, 153, 146, 87, 94, 173, 149, 75, 71, 20, 104, 59, 40, 96, 136, 17, 193, 202, 69,
                     44, 253, 6, 40, 210, 140, 169, 230 >>)
              @@
              (<< 228, 130, 0, 18, 160, 160, 55, 87, 191, 65, 234, 3, 59, 73, 239, 113, 134, 143, 229, 234, 122, 152, 215, 191,
                  44, 162, 226, 64, 178, 168, 152, 185, 85, 223, 146, 16, 123 >>
               :> << 5, 228, 195, 169, 218, 86, 13, 252, 20, 10, 55, 11, 61, 240, 118, 80, 130, 109, 152, 211, 27, 199, 20, 106,
                     144, 179, 112, 142, 155, 58, 151, 221 >>)
             )
            )
           )
          )
         )
         @@
         (
          (
           (
            (
             (<< 228, 130, 0, 18, 160, 180, 100, 126, 157, 63, 75, 21, 76, 59, 83, 175, 134, 99, 94, 12, 109, 25, 197, 203,
                 70, 3, 2, 97, 234, 177, 185, 135, 218, 84, 201, 53, 236 >>
              :> << 142, 2, 160, 176, 242, 36, 106, 153, 29, 192, 137, 130, 64, 13, 51, 146, 63, 154, 215, 89, 184, 77, 31, 182,
                    251, 239, 110, 3, 152, 155, 117, 193 >>)
             @@
             (<< 228, 130, 0, 18, 160, 219, 234, 87, 12, 189, 96, 101, 213, 252, 102, 211, 178, 212, 49, 240, 83, 141, 108, 45,
                 230, 213, 229, 98, 253, 208, 170, 185, 132, 7, 166, 10, 145 >>
              :> << 106, 98, 48, 39, 224, 111, 8, 94, 236, 215, 150, 77, 238, 220, 6, 104, 209, 44, 127, 1, 174, 153, 238, 45,
                    59, 36, 159, 5, 145, 168, 240, 51 >>)
            )
            @@
            (
             (<< 228, 130, 17, 17, 160, 222, 164, 75, 92, 202, 177, 10, 49, 239, 155, 132, 249, 246, 22, 116, 55, 48, 6, 134,
                 13, 254, 241, 204, 234, 25, 131, 92, 248, 169, 143, 147, 1 >>
              :> << 206, 60, 199, 166, 100, 166, 182, 29, 115, 36, 223, 107, 205, 239, 10, 63, 221, 109, 21, 49, 70, 144, 197, 205,
                    186, 132, 56, 149, 207, 236, 219, 43 >>)
             @@
             (
              (<< 228, 130, 32, 17, 160, 170, 170, 170, 170, 170, 170, 170, 170, 170, 170, 170, 170, 170, 170, 170, 170, 170, 170, 170,
                  170, 170, 170, 170, 170, 170, 170, 170, 170, 170, 170, 170, 170 >>
               :> << 110, 20, 40, 238, 143, 128, 161, 48, 58, 182, 18, 178, 137, 253, 43, 150, 192, 237, 23, 37, 54, 122, 88, 220,
                     106, 174, 194, 164, 72, 96, 66, 208 >>)
              @@
              (<< 228, 130, 32, 18, 160, 170, 170, 170, 170, 170, 170, 170, 170, 170, 170, 170, 170, 170, 170, 170, 170, 170, 170, 170,
                  170, 170, 170, 170, 170, 170, 170, 170, 170, 170, 170, 170, 170 >>
               :> << 87, 112, 227, 95, 151, 1, 246, 35, 92, 8, 237, 87, 121, 56, 210, 146, 206, 52, 189, 57, 192, 158, 80, 93,
                     56, 217, 3, 216, 66, 120, 87, 11 >>)
             )
            )
           )
           @@
           (
            (
             (<< 228, 130, 32, 33, 160, 170, 170, 170, 170, 170, 170, 170, 170, 170, 170, 170, 170, 170, 170, 170, 170, 170, 170, 170,
                 170, 170, 170, 170, 170, 170, 170, 170, 170, 170, 170, 170, 170 >>
              :> << 124, 230, 218, 79, 193, 196, 115, 34, 73, 20, 80, 30, 94, 62, 200, 140, 48, 26, 126, 108, 98, 57, 81, 24,
                    129, 196, 28, 255, 208, 123, 197, 74 >>)
             @@
             (<< 228, 130, 49, 17, 160, 170, 170, 170, 170, 170, 170, 170, 170, 170, 170, 170, 170, 170, 170, 170, 170, 170, 170, 170,
                 170, 170, 170, 170, 170, 170, 170, 170, 170, 170, 170, 170, 170 >>
              :> << 156, 226, 225, 22, 25, 15, 92, 94, 64, 134, 67, 190, 204, 255, 141, 140, 123, 244, 212, 217, 173, 164, 63, 0,
                    143, 175, 38, 213, 126, 194, 158, 42 >>)
            )
            @@
            (
             (<< 229, 17, 163, 226, 49, 160, 170, 170, 170, 170, 170, 170, 170, 170, 170, 170, 170, 170, 170, 170, 170, 170, 170, 170,
                 170, 170, 170, 170, 170, 170, 170, 170, 170, 170, 170, 170, 170, 170 >>
              :> << 110, 221, 29, 65, 175, 105, 138, 154, 123, 240, 170, 85, 18, 147, 210, 125, 194, 33, 110, 168, 50, 109, 30, 84,
                    176, 144, 167, 160, 197, 60, 232, 45 >>)
             @@
             (
              (<< 229, 131, 32, 17, 17, 160, 170, 170, 170, 170, 170, 170, 170, 170, 170, 170, 170, 170, 170, 170, 170, 170, 170, 170,
                  170, 170, 170, 170, 170, 170, 170, 170, 170, 170, 170, 170, 170, 170 >>
               :> << 0, 162, 59, 140, 102, 230, 74, 13, 60, 216, 235, 32, 62, 20, 137, 46, 179, 85, 144, 109, 217, 110, 92, 99,
                     79, 165, 43, 82, 178, 38, 6, 171 >>)
              @@
              (<< 229, 131, 32, 18, 17, 160, 170, 170, 170, 170, 170, 170, 170, 170, 170, 170, 170, 170, 170, 170, 170, 170, 170, 170,
                  170, 170, 170, 170, 170, 170, 170, 170, 170, 170, 170, 170, 170, 170 >>
               :> << 199, 4, 183, 160, 107, 33, 63, 120, 177, 15, 184, 87, 162, 215, 180, 198, 117, 28, 70, 116, 44, 44, 56, 159,
                     201, 192, 213, 140, 182, 228, 218, 47 >>)
             )
            )
           )
          )
          @@
          (
           (
            (
             (<< 229, 131, 32, 18, 33, 160, 170, 170, 170, 170, 170, 170, 170, 170, 170, 170, 170, 170, 170, 170, 170, 170, 170, 170,
                 170, 170, 170, 170, 170, 170, 170, 170, 170, 170, 170, 170, 170, 170 >>
              :> << 130, 148, 71, 232, 190, 139, 120, 185, 104, 33, 239, 99, 106, 87, 83, 9, 80, 203, 42, 195, 111, 237, 139, 67,
                    94, 132, 40, 175, 89, 253, 87, 110 >>)
             @@
             (<< 241, 128, 128, 160, 15, 210, 121, 87, 19, 39, 9, 66, 180, 2, 58, 251, 48, 178, 87, 132, 197, 136, 32, 191,
                 237, 14, 224, 49, 250, 1, 163, 166, 100, 35, 60, 19, 128, 128, 128, 128, 128, 128, 128, 128, 128, 128, 128, 128,
                 128, 7 >>
              :> << 175, 77, 108, 46, 214, 245, 108, 107, 119, 161, 233, 30, 218, 112, 46, 231, 205, 9, 59, 220, 172, 35, 96, 165,
                    178, 45, 164, 3, 172, 115, 117, 3 >>)
            )
            @@
            (
             (<< 241, 128, 128, 160, 101, 217, 52, 11, 204, 251, 208, 88, 44, 75, 121, 112, 138, 247, 197, 140, 203, 240, 115, 227,
                 95, 29, 158, 162, 86, 151, 40, 37, 213, 155, 5, 240, 128, 128, 128, 128, 128, 128, 128, 128, 128, 128, 128, 128,
                 128, 7 >>
              :> << 147, 237, 119, 51, 59, 26, 32, 233, 183, 63, 157, 116, 74, 135, 107, 116, 167, 227, 194, 198, 222, 7, 209, 222,
                    136, 56, 234, 10, 149, 219, 91, 190 >>)
             @@
             (
              (<< 241, 128, 128, 160, 136, 58, 237, 11, 149, 17, 240, 222, 32, 228, 111, 46, 3, 168, 105, 233, 138, 64, 228, 140,
                  206, 254, 78, 217, 164, 212, 89, 247, 93, 114, 103, 35, 128, 128, 128, 128, 128, 128, 128, 128, 128, 128, 128, 128,
                  128, 7 >>
               :> << 51, 102, 106, 185, 40, 147, 62, 173, 253, 38, 193, 40, 105, 249, 195, 4, 58, 228, 77, 239, 191, 94, 89, 63,
                     131, 18, 145, 119, 241, 22, 228, 32 >>)
              @@
              (<< 241, 128, 128, 160, 136, 58, 237, 11, 149, 17, 240, 222, 32, 228, 111, 46, 3, 168, 105, 233, 138, 64, 228, 140,
                  206, 254, 78, 217, 164, 212, 89, 247, 93, 114, 103, 35, 128, 128, 128, 128, 128, 128, 128, 128, 128, 128, 128, 128,
                  128, 128 >>
               :> << 105, 12, 130, 250, 44, 200, 52, 39, 25, 141, 98, 192, 245, 83, 26, 112, 22, 135, 36, 124, 86, 93, 178, 99,
                     245, 63, 226, 121, 150, 188, 199, 57 >>)
             )
            )
           )
           @@
           (
            (
             (<< 241, 128, 128, 160, 160, 55, 87, 191, 65, 234, 3, 59, 73, 239, 113, 134, 143, 229, 234, 122, 152, 215, 191, 44,
                 162, 226, 64, 178, 168, 152, 185, 85, 223, 146, 16, 123, 128, 128, 128, 128, 128, 128, 128, 128, 128, 128, 128, 128,
                 128, 7 >>
              :> << 151, 10, 218, 172, 158, 200, 135, 150, 197, 35, 111, 188, 201, 106, 31, 22, 99, 213, 87, 91, 50, 131, 115, 72,
                    36, 92, 253, 221, 99, 237, 65, 27 >>)
             @@
             (<< 241, 128, 128, 160, 190, 205, 104, 120, 92, 221, 156, 214, 11, 68, 133, 149, 172, 204, 40, 16, 12, 119, 248, 181,
                 61, 201, 4, 126, 179, 246, 230, 76, 125, 128, 177, 221, 128, 128, 128, 128, 128, 128, 128, 128, 128, 128, 128, 128,
                 128, 7 >>
              :> << 93, 12, 203, 7, 28, 212, 165, 115, 130, 50, 7, 168, 112, 111, 54, 132, 174, 24, 228, 91, 4, 63, 21, 245,
                    27, 197, 76, 200, 36, 123, 96, 84 >>)
            )
            @@
            (
             (<< 241, 128, 128, 160, 190, 205, 104, 120, 92, 221, 156, 214, 11, 68, 133, 149, 172, 204, 40, 16, 12, 119, 248, 181,
                 61, 201, 4, 126, 179, 246, 230, 76, 125, 128, 177, 221, 128, 128, 128, 128, 128, 128, 128, 128, 128, 128, 128, 128,
                 128, 128 >>
              :> << 236, 226, 148, 203, 2, 95, 167, 206, 191, 231, 137, 236, 159, 236, 154, 242, 80, 108, 35, 25, 131, 60, 34, 11,
                    40, 206, 18, 92, 15, 121, 210, 51 >>)
             @@
             (
              (<< 241, 128, 128, 160, 219, 234, 87, 12, 189, 96, 101, 213, 252, 102, 211, 178, 212, 49, 240, 83, 141, 108, 45, 230,
                  213, 229, 98, 253, 208, 170, 185, 132, 7, 166, 10, 145, 128, 128, 128, 128, 128, 128, 128, 128, 128, 128, 128, 128,
                  128, 7 >>
               :> << 216, 219, 135, 14, 154, 48, 212, 79, 147, 19, 177, 100, 246, 233, 121, 219, 48, 123, 80, 149, 74, 68, 69, 167,
                     208, 207, 127, 254, 148, 125, 39, 56 >>)
              @@
              (<< 241, 128, 160, 1, 189, 157, 160, 165, 125, 95, 123, 206, 29, 82, 95, 6, 58, 243, 119, 55, 60, 251, 39, 70,
                  119, 20, 21, 4, 97, 234, 2, 4, 201, 254, 243, 128, 128, 128, 128, 128, 128, 128, 128, 128, 128, 128, 128, 128,
                  128, 128 >>
               :> << 246, 77, 95, 42, 41, 220, 207, 184, 122, 79, 223, 210, 101, 238, 200, 138, 148, 21, 70, 4, 150, 204, 112, 189,
                     22, 157, 76, 38, 225, 249, 231, 207 >>)
             )
            )
           )
          )
         )
        )
       )
      )
     )
     @@
     (
      (
       (
        (
         (
          (
           (
            (
             (<< 241, 128, 160, 8, 244, 231, 224, 70, 11, 187, 5, 67, 238, 151, 214, 147, 117, 139, 120, 57, 147, 22, 96, 98,
                 200, 78, 186, 126, 144, 184, 166, 9, 101, 147, 186, 128, 128, 128, 128, 128, 128, 128, 128, 128, 128, 128, 128, 128,
                 128, 128 >>
              :> << 4, 133, 87, 4, 122, 31, 4, 245, 67, 52, 109, 193, 159, 0, 118, 131, 249, 109, 190, 55, 1, 186, 218, 151,
                    71, 67, 193, 144, 30, 25, 84, 156 >>)
             @@
             (<< 241, 128, 160, 11, 63, 142, 125, 85, 68, 169, 72, 89, 170, 81, 163, 208, 145, 49, 188, 183, 195, 139, 190, 231,
                 69, 55, 138, 83, 230, 160, 63, 183, 37, 95, 10, 128, 128, 128, 128, 128, 128, 128, 128, 128, 128, 128, 128, 128,
                 128, 128 >>
              :> << 167, 145, 164, 33, 21, 174, 167, 115, 89, 177, 155, 122, 232, 70, 63, 14, 128, 102, 4, 179, 76, 27, 49, 149,
                    183, 190, 252, 212, 232, 144, 109, 58 >>)
            )
            @@
            (
             (<< 241, 128, 160, 15, 210, 121, 87, 19, 39, 9, 66, 180, 2, 58, 251, 48, 178, 87, 132, 197, 136, 32, 191, 237,
                 14, 224, 49, 250, 1, 163, 166, 100, 35, 60, 19, 128, 128, 128, 128, 128, 128, 128, 128, 128, 128, 128, 128, 128,
                 128, 7 >>
              :> << 81, 167, 158, 222, 237, 61, 118, 212, 34, 227, 37, 127, 215, 117, 102, 229, 148, 65, 31, 51, 164, 160, 189, 92,
                    39, 252, 148, 86, 251, 25, 83, 93 >>)
             @@
             (<< 241, 128, 160, 20, 251, 121, 127, 228, 21, 236, 58, 185, 228, 172, 158, 34, 160, 165, 165, 194, 96, 70, 208, 153,
                 150, 249, 190, 240, 13, 233, 39, 189, 61, 180, 100, 128, 128, 128, 128, 128, 128, 128, 128, 128, 128, 128, 128, 128,
                 128, 128 >>
              :> << 218, 121, 44, 6, 233, 107, 182, 251, 241, 189, 6, 79, 159, 154, 107, 69, 146, 175, 57, 137, 171, 128, 115, 248,
                    189, 168, 78, 62, 6, 25, 37, 221 >>)
            )
           )
           @@
           (
            (
             (<< 241, 128, 160, 28, 24, 41, 172, 146, 115, 193, 171, 132, 44, 202, 171, 221, 128, 90, 195, 112, 64, 167, 205, 150,
                 6, 121, 164, 155, 211, 64, 188, 127, 89, 217, 134, 128, 128, 128, 128, 128, 128, 128, 128, 128, 128, 128, 128, 128,
                 128, 128 >>
              :> << 15, 104, 225, 239, 175, 216, 26, 88, 171, 57, 244, 158, 193, 90, 121, 229, 211, 144, 58, 204, 200, 8, 158, 2,
                    24, 3, 232, 137, 138, 129, 102, 29 >>)
             @@
             (<< 241, 128, 160, 49, 13, 141, 187, 5, 216, 170, 152, 49, 82, 164, 164, 116, 143, 201, 53, 103, 101, 91, 77, 206,
                 242, 84, 46, 199, 225, 140, 179, 221, 112, 224, 207, 128, 128, 128, 128, 128, 128, 128, 128, 128, 128, 128, 128, 128,
                 128, 128 >>
              :> << 21, 92, 206, 101, 249, 119, 134, 51, 144, 43, 151, 240, 26, 206, 137, 78, 123, 160, 243, 202, 202, 116, 242, 67,
                    102, 169, 93, 142, 236, 41, 223, 73 >>)
            )
            @@
            (
             (<< 241, 128, 160, 51, 176, 29, 9, 7, 64, 193, 203, 246, 168, 101, 88, 186, 82, 51, 150, 234, 153, 252, 132, 229,
                 119, 22, 26, 24, 61, 183, 78, 58, 6, 171, 179, 128, 128, 128, 128, 128, 128, 128, 128, 128, 128, 128, 128, 128,
                 128, 128 >>
              :> << 183, 199, 214, 186, 141, 209, 33, 203, 215, 113, 210, 26, 200, 114, 187, 45, 37, 255, 54, 220, 35, 166, 123, 219,
                    185, 238, 94, 158, 194, 200, 70, 60 >>)
             @@
             (
              (<< 241, 128, 160, 63, 27, 126, 228, 3, 156, 248, 81, 206, 248, 210, 225, 195, 32, 24, 148, 26, 120, 85, 182, 227,
                  158, 34, 191, 26, 120, 218, 69, 186, 55, 122, 10, 128, 128, 128, 128, 128, 128, 128, 128, 128, 128, 128, 128, 128,
                  128, 128 >>
               :> << 148, 96, 50, 236, 53, 57, 227, 70, 6, 239, 124, 204, 23, 76, 70, 47, 223, 251, 216, 93, 129, 88, 21, 225,
                     63, 182, 191, 248, 94, 234, 199, 139 >>)
              @@
              (<< 241, 128, 160, 74, 36, 156, 158, 22, 225, 21, 247, 118, 100, 109, 196, 2, 238, 175, 108, 240, 86, 61, 248, 11,
                  122, 21, 144, 225, 117, 206, 21, 100, 47, 8, 212, 128, 128, 128, 128, 128, 128, 128, 128, 128, 128, 128, 128, 128,
                  128, 128 >>
               :> << 85, 71, 53, 14, 79, 137, 15, 57, 72, 29, 36, 130, 57, 160, 183, 211, 91, 13, 28, 224, 175, 168, 175, 61,
                     89, 97, 97, 46, 126, 125, 185, 120 >>)
             )
            )
           )
          )
          @@
          (
           (
            (
             (<< 241, 128, 160, 78, 145, 110, 51, 81, 159, 141, 181, 215, 2, 96, 6, 216, 65, 193, 198, 18, 87, 25, 221, 74,
                 123, 242, 24, 116, 197, 183, 193, 85, 165, 206, 114, 128, 128, 128, 128, 128, 128, 128, 128, 128, 128, 128, 128, 128,
                 128, 128 >>
              :> << 116, 10, 239, 234, 224, 166, 199, 255, 255, 20, 32, 5, 127, 154, 240, 17, 43, 213, 204, 145, 43, 214, 199, 240,
                    219, 85, 224, 9, 111, 225, 102, 254 >>)
             @@
             (<< 241, 128, 160, 93, 2, 0, 41, 41, 151, 146, 112, 10, 93, 21, 164, 168, 60, 100, 98, 47, 234, 186, 242, 172,
                 140, 222, 167, 82, 7, 41, 69, 17, 115, 58, 118, 128, 128, 128, 128, 128, 128, 128, 128, 128, 128, 128, 128, 128,
                 128, 128 >>
              :> << 227, 166, 26, 136, 4, 110, 126, 133, 225, 153, 84, 58, 221, 109, 134, 96, 102, 209, 199, 90, 126, 190, 198, 39,
                    98, 186, 225, 179, 104, 99, 117, 232 >>)
            )
            @@
            (
             (<< 241, 128, 160, 93, 229, 103, 118, 159, 60, 147, 111, 85, 151, 85, 195, 27, 12, 105, 125, 124, 96, 35, 121, 148,
                 158, 226, 49, 50, 196, 25, 140, 66, 239, 200, 46, 128, 128, 128, 128, 128, 128, 128, 128, 128, 128, 128, 128, 128,
                 128, 128 >>
              :> << 134, 92, 243, 217, 47, 90, 31, 105, 133, 8, 247, 120, 92, 197, 143, 245, 225, 152, 152, 214, 239, 206, 102, 145,
                    80, 197, 196, 217, 13, 130, 235, 42 >>)
             @@
             (
              (<< 241, 128, 160, 95, 194, 23, 20, 254, 212, 80, 66, 103, 185, 235, 167, 70, 143, 91, 104, 109, 206, 5, 237, 163,
                  196, 136, 67, 31, 200, 185, 226, 147, 120, 29, 0, 128, 128, 128, 128, 128, 128, 128, 128, 128, 128, 128, 128, 128,
                  128, 128 >>
               :> << 227, 209, 152, 65, 9, 246, 51, 215, 128, 170, 142, 165, 15, 45, 36, 24, 11, 142, 35, 60, 171, 144, 224, 253,
                     230, 76, 236, 8, 36, 161, 39, 37 >>)
              @@
              (<< 241, 128, 160, 99, 11, 168, 39, 26, 214, 41, 128, 114, 232, 9, 17, 239, 19, 248, 231, 197, 102, 32, 249, 156,
                  185, 140, 106, 19, 8, 27, 72, 40, 152, 142, 166, 128, 128, 128, 128, 128, 128, 128, 128, 128, 128, 128, 128, 128,
                  128, 128 >>
               :> << 74, 150, 60, 44, 130, 55, 21, 70, 147, 19, 98, 106, 121, 102, 200, 229, 124, 157, 130, 123, 78, 98, 143, 60,
                     95, 150, 222, 149, 96, 250, 100, 229 >>)
             )
            )
           )
           @@
           (
            (
             (<< 241, 128, 160, 101, 217, 52, 11, 204, 251, 208, 88, 44, 75, 121, 112, 138, 247, 197, 140, 203, 240, 115, 227, 95,
                 29, 158, 162, 86, 151, 40, 37, 213, 155, 5, 240, 128, 128, 128, 128, 128, 128, 128, 128, 128, 128, 128, 128, 128,
                 128, 7 >>
              :> << 237, 108, 250, 33, 12, 213, 95, 127, 212, 153, 217, 97, 194, 163, 129, 107, 228, 138, 54, 210, 51, 29, 187, 50,
                    7, 165, 173, 225, 39, 42, 103, 110 >>)
             @@
             (<< 241, 128, 160, 104, 104, 127, 242, 174, 212, 120, 211, 207, 176, 183, 197, 43, 201, 55, 116, 231, 80, 57, 67, 190,
                 254, 89, 180, 79, 226, 230, 124, 115, 117, 134, 121, 128, 128, 128, 128, 128, 128, 128, 128, 128, 128, 128, 128, 128,
                 128, 128 >>
              :> << 206, 191, 201, 168, 0, 127, 18, 49, 188, 220, 150, 201, 90, 135, 52, 142, 126, 158, 110, 70, 231, 217, 55, 122,
                    25, 38, 164, 121, 242, 15, 114, 96 >>)
            )
            @@
            (
             (<< 241, 128, 160, 105, 222, 156, 178, 92, 16, 224, 192, 239, 211, 36, 109, 179, 16, 217, 220, 137, 72, 32, 38, 194,
                 160, 220, 110, 146, 14, 202, 243, 37, 128, 121, 190, 128, 128, 128, 128, 128, 128, 128, 128, 128, 128, 128, 128, 128,
                 128, 128 >>
              :> << 39, 242, 225, 233, 243, 173, 160, 164, 101, 157, 115, 7, 165, 240, 135, 81, 250, 217, 82, 238, 24, 130, 60, 201,
                    45, 235, 42, 35, 191, 15, 217, 14 >>)
             @@
             (
              (<< 241, 128, 160, 120, 98, 80, 193, 117, 5, 1, 44, 46, 155, 56, 84, 185, 203, 159, 51, 236, 182, 32, 36, 191,
                  251, 137, 58, 0, 165, 215, 6, 128, 242, 6, 88, 128, 128, 128, 128, 128, 128, 128, 128, 128, 128, 128, 128, 128,
                  128, 128 >>
               :> << 150, 210, 188, 62, 98, 201, 36, 0, 70, 59, 144, 236, 205, 185, 5, 128, 102, 255, 51, 174, 174, 67, 225, 245,
                     153, 191, 28, 116, 176, 82, 247, 202 >>)
              @@
              (<< 241, 128, 160, 120, 140, 254, 208, 112, 133, 80, 24, 104, 207, 66, 26, 163, 219, 232, 72, 229, 17, 85, 124, 48,
                  174, 55, 242, 75, 81, 44, 245, 137, 254, 187, 65, 128, 128, 128, 128, 128, 128, 128, 128, 128, 128, 128, 128, 128,
                  128, 128 >>
               :> << 201, 194, 47, 75, 143, 8, 229, 252, 150, 64, 181, 25, 194, 65, 44, 66, 99, 60, 198, 171, 187, 249, 173, 219,
                     153, 38, 159, 228, 55, 242, 209, 136 >>)
             )
            )
           )
          )
         )
         @@
         (
          (
           (
            (
             (<< 241, 128, 160, 121, 124, 107, 41, 28, 38, 158, 50, 23, 21, 102, 151, 169, 130, 35, 81, 111, 128, 26, 154, 40,
                 153, 53, 31, 139, 203, 208, 144, 18, 82, 72, 118, 128, 128, 128, 128, 128, 128, 128, 128, 128, 128, 128, 128, 128,
                 128, 128 >>
              :> << 28, 24, 41, 172, 146, 115, 193, 171, 132, 44, 202, 171, 221, 128, 90, 195, 112, 64, 167, 205, 150, 6, 121, 164,
                    155, 211, 64, 188, 127, 89, 217, 134 >>)
             @@
             (<< 241, 128, 160, 133, 82, 84, 216, 5, 105, 31, 91, 103, 32, 52, 31, 98, 222, 136, 31, 22, 32, 54, 158, 200,
                 181, 118, 5, 146, 141, 10, 63, 222, 248, 188, 86, 128, 128, 128, 128, 128, 128, 128, 128, 128, 128, 128, 128, 128,
                 128, 7 >>
              :> << 15, 210, 121, 87, 19, 39, 9, 66, 180, 2, 58, 251, 48, 178, 87, 132, 197, 136, 32, 191, 237, 14, 224, 49,
                    250, 1, 163, 166, 100, 35, 60, 19 >>)
            )
            @@
            (
             (<< 241, 128, 160, 133, 82, 84, 216, 5, 105, 31, 91, 103, 32, 52, 31, 98, 222, 136, 31, 22, 32, 54, 158, 200,
                 181, 118, 5, 146, 141, 10, 63, 222, 248, 188, 86, 128, 128, 128, 128, 128, 128, 128, 128, 128, 128, 128, 128, 128,
                 128, 128 >>
              :> << 198, 181, 215, 183, 226, 100, 40, 91, 62, 13, 25, 252, 151, 26, 127, 243, 46, 15, 143, 236, 211, 8, 171, 191,
                    56, 107, 134, 188, 156, 103, 41, 95 >>)
             @@
             (
              (<< 241, 128, 160, 136, 58, 237, 11, 149, 17, 240, 222, 32, 228, 111, 46, 3, 168, 105, 233, 138, 64, 228, 140, 206,
                  254, 78, 217, 164, 212, 89, 247, 93, 114, 103, 35, 128, 128, 128, 128, 128, 128, 128, 128, 128, 128, 128, 128, 128,
                  128, 7 >>
               :> << 44, 164, 184, 214, 255, 234, 42, 235, 165, 22, 203, 12, 29, 183, 12, 144, 139, 162, 89, 103, 231, 11, 22, 51,
                     66, 205, 155, 203, 127, 33, 109, 198 >>)
              @@
              (<< 241, 128, 160, 136, 58, 237, 11, 149, 17, 240, 222, 32, 228, 111, 46, 3, 168, 105, 233, 138, 64, 228, 140, 206,
                  254, 78, 217, 164, 212, 89, 247, 93, 114, 103, 35, 128, 128, 128, 128, 128, 128, 128, 128, 128, 128, 128, 128, 128,
                  128, 128 >>
               :> << 65, 177, 119, 73, 108, 207, 225, 233, 97, 78, 110, 112, 74, 74, 215, 68, 227, 158, 228, 145, 147, 215, 199, 164,
                     174, 251, 38, 189, 146, 254, 76, 67 >>)
             )
            )
           )
           @@
           (
            (
             (<< 241, 128, 160, 136, 249, 180, 218, 37, 94, 62, 145, 141, 125, 123, 177, 163, 177, 16, 211, 181, 24, 141, 116, 25,
                 251, 68, 73, 39, 141, 142, 23, 152, 65, 159, 82, 128, 128, 128, 128, 128, 128, 128, 128, 128, 128, 128, 128, 128,
                 128, 128 >>
              :> << 180, 66, 181, 70, 200, 183, 215, 77, 213, 245, 228, 181, 96, 106, 231, 195, 92, 27, 85, 195, 98, 28, 74, 206,
                    66, 147, 14, 216, 223, 239, 145, 121 >>)
             @@
             (<< 241, 128, 160, 145, 242, 114, 205, 148, 96, 113, 95, 189, 20, 218, 203, 129, 161, 68, 175, 127, 2, 150, 153, 165,
                 77, 184, 181, 199, 98, 53, 108, 183, 4, 45, 52, 128, 128, 128, 128, 128, 128, 128, 128, 128, 128, 128, 128, 128,
                 128, 128 >>
              :> << 109, 147, 90, 238, 255, 204, 184, 175, 122, 107, 231, 62, 222, 4, 108, 79, 23, 171, 251, 151, 9, 254, 64, 149,
                    157, 47, 143, 50, 35, 147, 112, 52 >>)
            )
            @@
            (
             (<< 241, 128, 160, 156, 226, 225, 22, 25, 15, 92, 94, 64, 134, 67, 190, 204, 255, 141, 140, 123, 244, 212, 217, 173,
                 164, 63, 0, 143, 175, 38, 213, 126, 194, 158, 42, 128, 128, 128, 128, 128, 128, 128, 128, 128, 128, 128, 128, 128,
                 128, 128 >>
              :> << 241, 69, 0, 0, 55, 184, 123, 234, 167, 131, 25, 61, 82, 161, 151, 8, 65, 41, 251, 188, 70, 118, 67, 64,
                    11, 28, 196, 63, 96, 190, 23, 78 >>)
             @@
             (
              (<< 241, 128, 160, 160, 55, 87, 191, 65, 234, 3, 59, 73, 239, 113, 134, 143, 229, 234, 122, 152, 215, 191, 44, 162,
                  226, 64, 178, 168, 152, 185, 85, 223, 146, 16, 123, 128, 128, 128, 128, 128, 128, 128, 128, 128, 128, 128, 128, 128,
                  128, 7 >>
               :> << 72, 109, 236, 204, 188, 142, 129, 23, 19, 94, 88, 74, 209, 177, 236, 55, 65, 8, 38, 115, 54, 23, 188, 209,
                     184, 206, 39, 121, 109, 7, 229, 192 >>)
              @@
              (<< 241, 128, 160, 160, 55, 87, 191, 65, 234, 3, 59, 73, 239, 113, 134, 143, 229, 234, 122, 152, 215, 191, 44, 162,
                  226, 64, 178, 168, 152, 185, 85, 223, 146, 16, 123, 128, 128, 128, 128, 128, 128, 128, 128, 128, 128, 128, 128, 128,
                  128, 128 >>
               :> << 176, 8, 58, 36, 168, 196, 41, 92, 3, 9, 98, 167, 239, 215, 105, 115, 47, 252, 1, 245, 14, 41, 60, 55,
                     205, 151, 99, 249, 185, 118, 198, 61 >>)
             )
            )
           )
          )
          @@
          (
           (
            (
             (<< 241, 128, 160, 169, 192, 151, 185, 208, 111, 49, 38, 210, 100, 216, 219, 84, 203, 44, 51, 19, 30, 68, 92, 240,
                 211, 19, 144, 111, 229, 54, 11, 193, 158, 120, 18, 128, 128, 128, 128, 128, 128, 128, 128, 128, 128, 128, 128, 128,
                 128, 128 >>
              :> << 236, 187, 197, 49, 240, 104, 134, 2, 0, 157, 196, 189, 49, 74, 138, 85, 30, 144, 44, 74, 28, 146, 194, 162,
                    190, 161, 68, 176, 77, 179, 251, 185 >>)
             @@
             (<< 241, 128, 160, 176, 8, 58, 36, 168, 196, 41, 92, 3, 9, 98, 167, 239, 215, 105, 115, 47, 252, 1, 245, 14,
                 41, 60, 55, 205, 151, 99, 249, 185, 118, 198, 61, 128, 128, 128, 128, 128, 128, 128, 128, 128, 128, 128, 128, 128,
                 128, 128 >>
              :> << 74, 159, 63, 13, 254, 90, 21, 74, 239, 249, 128, 133, 207, 171, 159, 25, 158, 193, 202, 201, 205, 220, 169, 159,
                    114, 14, 169, 9, 63, 221, 26, 153 >>)
            )
            @@
            (
             (<< 241, 128, 160, 180, 66, 181, 70, 200, 183, 215, 77, 213, 245, 228, 181, 96, 106, 231, 195, 92, 27, 85, 195, 98,
                 28, 74, 206, 66, 147, 14, 216, 223, 239, 145, 121, 128, 128, 128, 128, 128, 128, 128, 128, 128, 128, 128, 128, 128,
                 128, 128 >>
              :> << 206, 184, 31, 11, 205, 235, 66, 85, 102, 211, 53, 157, 86, 190, 51, 65, 71, 53, 56, 250, 20, 6, 57, 94,
                    122, 83, 79, 208, 222, 253, 149, 91 >>)
             @@
             (
              (<< 241, 128, 160, 183, 191, 108, 95, 110, 33, 164, 31, 203, 202, 246, 245, 109, 42, 4, 71, 0, 194, 79, 141, 253,
                  249, 149, 108, 221, 199, 193, 70, 178, 147, 139, 229, 128, 128, 128, 128, 128, 128, 128, 128, 128, 128, 128, 128, 128,
                  128, 128 >>
               :> << 199, 31, 191, 139, 132, 21, 230, 13, 234, 201, 128, 149, 181, 150, 186, 251, 196, 65, 166, 115, 225, 112, 79, 112,
                     125, 208, 179, 180, 195, 137, 58, 49 >>)
              @@
              (<< 241, 128, 160, 185, 148, 2, 217, 78, 138, 20, 229, 253, 168, 134, 125, 36, 75, 231, 25, 33, 138, 81, 112, 124,
                  82, 87, 144, 68, 0, 190, 164, 25, 180, 197, 143, 128, 128, 128, 128, 128, 128, 128, 128, 128, 128, 128, 128, 128,
                  128, 128 >>
               :> << 51, 63, 29, 1, 162, 254, 2, 146, 19, 242, 111, 143, 228, 222, 119, 120, 37, 103, 19, 76, 191, 185, 28, 66,
                     207, 128, 79, 163, 149, 69, 51, 28 >>)
             )
            )
           )
           @@
           (
            (
             (<< 241, 128, 160, 189, 128, 182, 111, 135, 205, 90, 246, 108, 232, 162, 188, 206, 218, 80, 2, 62, 152, 218, 102, 4,
                 43, 25, 106, 3, 66, 105, 109, 199, 83, 54, 208, 128, 128, 128, 128, 128, 128, 128, 128, 128, 128, 128, 128, 128,
                 128, 128 >>
              :> << 135, 25, 100, 37, 170, 93, 124, 172, 72, 196, 189, 2, 255, 16, 93, 133, 118, 60, 105, 89, 114, 161, 53, 151,
                    116, 27, 102, 32, 35, 205, 15, 44 >>)
             @@
             (<< 241, 128, 160, 190, 205, 104, 120, 92, 221, 156, 214, 11, 68, 133, 149, 172, 204, 40, 16, 12, 119, 248, 181, 61,
                 201, 4, 126, 179, 246, 230, 76, 125, 128, 177, 221, 128, 128, 128, 128, 128, 128, 128, 128, 128, 128, 128, 128, 128,
                 128, 7 >>
              :> << 222, 64, 43, 15, 117, 45, 170, 60, 182, 249, 210, 221, 137, 169, 72, 241, 37, 86, 150, 67, 168, 182, 146, 146,
                    83, 74, 237, 206, 123, 199, 150, 219 >>)
            )
            @@
            (
             (<< 241, 128, 160, 190, 205, 104, 120, 92, 221, 156, 214, 11, 68, 133, 149, 172, 204, 40, 16, 12, 119, 248, 181, 61,
                 201, 4, 126, 179, 246, 230, 76, 125, 128, 177, 221, 128, 128, 128, 128, 128, 128, 128, 128, 128, 128, 128, 128, 128,
                 128, 128 >>
              :> << 226, 18, 105, 213, 247, 34, 242, 74, 194, 76, 211, 110, 18, 75, 30, 103, 41, 95, 48, 254, 148, 117, 188, 129,
                    229, 251, 81, 92, 143, 153, 182, 8 >>)
             @@
             (
              (<< 241, 128, 160, 200, 118, 48, 162, 186, 59, 47, 71, 104, 244, 165, 84, 108, 27, 15, 45, 89, 133, 208, 141, 78,
                  141, 126, 73, 191, 16, 48, 216, 32, 120, 183, 203, 128, 128, 128, 128, 128, 128, 128, 128, 128, 128, 128, 128, 128,
                  128, 128 >>
               :> << 51, 157, 59, 197, 134, 101, 221, 11, 6, 174, 24, 214, 0, 63, 183, 24, 34, 230, 227, 113, 189, 196, 122, 240,
                     200, 8, 49, 4, 76, 155, 137, 7 >>)
              @@
              (<< 241, 128, 160, 213, 158, 209, 212, 74, 39, 208, 249, 129, 198, 28, 122, 66, 165, 251, 53, 211, 217, 40, 76, 34,
                  249, 243, 106, 253, 47, 213, 55, 36, 37, 88, 175, 128, 128, 128, 128, 128, 128, 128, 128, 128, 128, 128, 128, 128,
                  128, 128 >>
               :> << 41, 250, 232, 157, 4, 179, 93, 246, 96, 103, 193, 220, 33, 123, 5, 54, 155, 68, 119, 253, 168, 193, 5, 87,
                     117, 174, 109, 232, 143, 114, 55, 62 >>)
             )
            )
           )
          )
         )
        )
        @@
        (
         (
          (
           (
            (
             (<< 241, 128, 160, 214, 193, 237, 138, 171, 59, 98, 181, 39, 152, 98, 41, 211, 138, 147, 111, 225, 193, 46, 113, 188,
                 146, 21, 242, 97, 252, 46, 36, 211, 33, 198, 206, 128, 128, 128, 128, 128, 128, 128, 128, 128, 128, 128, 128, 128,
                 128, 128 >>
              :> << 244, 110, 216, 111, 80, 200, 85, 105, 218, 138, 185, 8, 199, 172, 13, 125, 208, 96, 109, 26, 166, 7, 67, 194,
                    114, 31, 232, 212, 29, 72, 146, 5 >>)
             @@
             (<< 241, 128, 160, 215, 133, 177, 175, 70, 14, 23, 98, 71, 101, 235, 46, 123, 155, 218, 113, 121, 114, 4, 29, 82,
                 161, 84, 49, 27, 238, 29, 146, 210, 67, 118, 111, 128, 128, 128, 128, 128, 128, 128, 128, 128, 128, 128, 128, 128,
                 128, 7 >>
              :> << 101, 217, 52, 11, 204, 251, 208, 88, 44, 75, 121, 112, 138, 247, 197, 140, 203, 240, 115, 227, 95, 29, 158, 162,
                    86, 151, 40, 37, 213, 155, 5, 240 >>)
            )
            @@
            (
             (<< 241, 128, 160, 215, 133, 177, 175, 70, 14, 23, 98, 71, 101, 235, 46, 123, 155, 218, 113, 121, 114, 4, 29, 82,
                 161, 84, 49, 27, 238, 29, 146, 210, 67, 118, 111, 128, 128, 128, 128, 128, 128, 128, 128, 128, 128, 128, 128, 128,
                 128, 128 >>
              :> << 121, 124, 107, 41, 28, 38, 158, 50, 23, 21, 102, 151, 169, 130, 35, 81, 111, 128, 26, 154, 40, 153, 53, 31,
                    139, 203, 208, 144, 18, 82, 72, 118 >>)
             @@
             (
              (<< 241, 128, 160, 219, 207, 18, 235, 39, 197, 237, 172, 217, 173, 54, 201, 55, 71, 227, 146, 135, 214, 135, 129, 41,
                  186, 248, 176, 59, 255, 159, 241, 172, 222, 42, 195, 128, 128, 128, 128, 128, 128, 128, 128, 128, 128, 128, 128, 128,
                  128, 128 >>
               :> << 136, 8, 59, 162, 32, 224, 53, 9, 111, 246, 196, 195, 43, 72, 157, 228, 250, 199, 134, 149, 215, 143, 36, 180,
                     193, 109, 174, 208, 130, 141, 147, 11 >>)
              @@
              (<< 241, 128, 160, 219, 234, 87, 12, 189, 96, 101, 213, 252, 102, 211, 178, 212, 49, 240, 83, 141, 108, 45, 230, 213,
                  229, 98, 253, 208, 170, 185, 132, 7, 166, 10, 145, 128, 128, 128, 128, 128, 128, 128, 128, 128, 128, 128, 128, 128,
                  128, 7 >>
               :> << 67, 89, 111, 7, 118, 76, 222, 186, 83, 123, 254, 71, 133, 192, 107, 7, 125, 5, 79, 223, 65, 198, 240, 247,
                     58, 56, 149, 101, 226, 114, 47, 162 >>)
             )
            )
           )
           @@
           (
            (
             (<< 241, 128, 160, 221, 101, 33, 65, 105, 223, 231, 128, 199, 7, 62, 136, 179, 19, 50, 248, 238, 119, 213, 93, 75,
                 237, 164, 253, 188, 127, 202, 96, 165, 130, 199, 204, 128, 128, 128, 128, 128, 128, 128, 128, 128, 128, 128, 128, 128,
                 128, 128 >>
              :> << 0, 196, 244, 211, 202, 162, 36, 124, 128, 61, 40, 76, 1, 229, 208, 128, 54, 213, 75, 132, 139, 240, 16, 150,
                    141, 124, 132, 251, 64, 14, 29, 123 >>)
             @@
             (<< 241, 128, 160, 237, 204, 219, 228, 55, 207, 164, 155, 250, 77, 24, 111, 217, 28, 160, 37, 123, 146, 10, 236, 6,
                 23, 173, 202, 14, 152, 134, 108, 215, 209, 151, 213, 128, 128, 128, 128, 128, 128, 128, 128, 128, 128, 128, 128, 128,
                 128, 128 >>
              :> << 91, 187, 3, 3, 161, 128, 66, 200, 188, 130, 166, 255, 162, 69, 241, 75, 208, 249, 178, 71, 77, 40, 161, 81,
                    135, 28, 113, 84, 187, 162, 164, 234 >>)
            )
            @@
            (
             (<< 241, 128, 160, 239, 92, 6, 52, 237, 178, 151, 175, 105, 70, 189, 182, 10, 172, 173, 62, 89, 209, 248, 195, 114,
                 198, 102, 80, 214, 5, 180, 201, 215, 3, 81, 217, 128, 128, 128, 128, 128, 128, 128, 128, 128, 128, 128, 128, 128,
                 128, 128 >>
              :> << 13, 64, 64, 61, 54, 10, 182, 38, 108, 77, 198, 127, 180, 108, 82, 93, 211, 198, 131, 232, 166, 215, 100, 255,
                    235, 118, 174, 84, 116, 53, 87, 101 >>)
             @@
             (
              (<< 241, 128, 160, 241, 239, 77, 25, 17, 147, 141, 24, 30, 234, 13, 113, 97, 228, 70, 96, 191, 81, 195, 58, 145,
                  148, 26, 139, 87, 154, 109, 55, 228, 120, 240, 243, 128, 128, 128, 128, 128, 128, 128, 128, 128, 128, 128, 128, 128,
                  128, 128 >>
               :> << 57, 177, 22, 173, 7, 198, 21, 216, 130, 242, 186, 101, 169, 125, 158, 18, 131, 22, 105, 158, 60, 19, 241, 130,
                     35, 37, 78, 226, 119, 130, 82, 103 >>)
              @@
              (<< 241, 128, 160, 242, 50, 67, 218, 202, 254, 205, 15, 37, 145, 187, 225, 179, 27, 255, 52, 30, 30, 41, 103, 248,
                  178, 220, 143, 138, 24, 6, 242, 214, 213, 131, 237, 128, 128, 128, 128, 128, 128, 128, 128, 128, 128, 128, 128, 128,
                  128, 128 >>
               :> << 122, 148, 6, 128, 87, 126, 58, 202, 120, 46, 164, 123, 168, 243, 178, 27, 135, 123, 228, 66, 251, 198, 238, 205,
                     115, 227, 208, 154, 135, 239, 77, 157 >>)
             )
            )
           )
          )
          @@
          (
           (
            (
             (<< 241, 128, 160, 246, 77, 95, 42, 41, 220, 207, 184, 122, 79, 223, 210, 101, 238, 200, 138, 148, 21, 70, 4, 150,
                 204, 112, 189, 22, 157, 76, 38, 225, 249, 231, 207, 128, 128, 128, 128, 128, 128, 128, 128, 128, 128, 128, 128, 128,
                 128, 128 >>
              :> << 192, 231, 70, 152, 78, 145, 132, 236, 71, 216, 184, 212, 214, 178, 35, 206, 107, 165, 15, 254, 85, 114, 28, 115,
                    236, 20, 19, 9, 47, 204, 82, 82 >>)
             @@
             (<< 241, 128, 160, 252, 200, 250, 51, 178, 109, 219, 130, 17, 30, 218, 89, 16, 96, 19, 17, 215, 227, 90, 23, 197,
                 238, 130, 57, 148, 235, 13, 34, 195, 110, 185, 165, 128, 128, 128, 128, 128, 128, 128, 128, 128, 128, 128, 128, 128,
                 128, 128 >>
              :> << 136, 249, 180, 218, 37, 94, 62, 145, 141, 125, 123, 177, 163, 177, 16, 211, 181, 24, 141, 116, 25, 251, 68, 73,
                    39, 141, 142, 23, 152, 65, 159, 82 >>)
            )
            @@
            (
             (<< 243, 128, 226, 49, 160, 170, 170, 170, 170, 170, 170, 170, 170, 170, 170, 170, 170, 170, 170, 170, 170, 170, 170, 170,
                 170, 170, 170, 170, 170, 170, 170, 170, 170, 170, 170, 170, 170, 128, 128, 128, 128, 128, 128, 128, 128, 128, 128, 128,
                 128, 128, 128, 128 >>
              :> << 65, 120, 188, 42, 23, 133, 218, 230, 145, 159, 193, 209, 141, 213, 139, 18, 97, 6, 190, 10, 18, 190, 140, 51,
                    67, 82, 102, 236, 59, 197, 192, 94 >>)
             @@
             (
              (<< 244, 128, 163, 226, 49, 160, 170, 170, 170, 170, 170, 170, 170, 170, 170, 170, 170, 170, 170, 170, 170, 170, 170, 170,
                  170, 170, 170, 170, 170, 170, 170, 170, 170, 170, 170, 170, 170, 170, 128, 128, 128, 128, 128, 128, 128, 128, 128, 128,
                  128, 128, 128, 128, 128 >>
               :> << 17, 94, 85, 132, 90, 48, 76, 86, 127, 231, 241, 141, 198, 217, 166, 19, 7, 118, 146, 75, 215, 35, 174, 102,
                     96, 107, 214, 63, 68, 115, 202, 2 >>)
              @@
              (<< 248, 81, 128, 128, 160, 15, 210, 121, 87, 19, 39, 9, 66, 180, 2, 58, 251, 48, 178, 87, 132, 197, 136, 32,
                  191, 237, 14, 224, 49, 250, 1, 163, 166, 100, 35, 60, 19, 128, 128, 128, 128, 128, 128, 128, 128, 128, 128, 128,
                  128, 128, 160, 170, 170, 170, 170, 170, 170, 170, 170, 170, 170, 170, 170, 170, 170, 170, 170, 170, 170, 170, 170, 170,
                  170, 170, 170, 170, 170, 170, 170, 170, 170, 170, 170 >>
               :> << 59, 5, 233, 41, 105, 76, 92, 101, 240, 122, 31, 120, 77, 102, 202, 79, 167, 202, 99, 177, 123, 205, 133, 229,
                     68, 177, 81, 171, 73, 82, 159, 64 >>)
             )
            )
           )
           @@
           (
            (
             (<< 248, 81, 128, 128, 160, 88, 229, 152, 11, 171, 205, 76, 6, 151, 0, 132, 63, 158, 59, 25, 97, 35, 48, 135,
                 27, 208, 85, 193, 111, 231, 242, 142, 9, 140, 108, 232, 148, 128, 128, 128, 128, 128, 128, 128, 128, 128, 128, 128,
                 128, 128, 160, 170, 170, 170, 170, 170, 170, 170, 170, 170, 170, 170, 170, 170, 170, 170, 170, 170, 170, 170, 170, 170,
                 170, 170, 170, 170, 170, 170, 170, 170, 170, 170, 170 >>
              :> << 205, 184, 227, 132, 72, 8, 106, 173, 6, 4, 114, 16, 111, 211, 180, 39, 142, 141, 232, 236, 0, 59, 185, 176,
                    13, 111, 65, 118, 180, 60, 22, 202 >>)
             @@
             (<< 248, 81, 128, 128, 160, 98, 73, 234, 54, 131, 64, 1, 163, 57, 155, 97, 224, 8, 50, 79, 206, 164, 65, 7,
                 64, 29, 174, 94, 33, 246, 138, 173, 89, 184, 182, 45, 143, 128, 128, 128, 128, 128, 128, 128, 128, 128, 128, 128,
                 128, 128, 160, 170, 170, 170, 170, 170, 170, 170, 170, 170, 170, 170, 170, 170, 170, 170, 170, 170, 170, 170, 170, 170,
                 170, 170, 170, 170, 170, 170, 170, 170, 170, 170, 170 >>
              :> << 49, 205, 39, 38, 244, 140, 107, 90, 165, 226, 79, 83, 139, 233, 40, 206, 67, 129, 187, 58, 124, 251, 88, 9,
                    111, 0, 139, 133, 53, 103, 220, 127 >>)
            )
            @@
            (
             (<< 248, 81, 128, 128, 160, 101, 217, 52, 11, 204, 251, 208, 88, 44, 75, 121, 112, 138, 247, 197, 140, 203, 240, 115,
                 227, 95, 29, 158, 162, 86, 151, 40, 37, 213, 155, 5, 240, 128, 128, 128, 128, 128, 128, 128, 128, 128, 128, 128,
                 128, 128, 160, 170, 170, 170, 170, 170, 170, 170, 170, 170, 170, 170, 170, 170, 170, 170, 170, 170, 170, 170, 170, 170,
                 170, 170, 170, 170, 170, 170, 170, 170, 170, 170, 170 >>
              :> << 83, 221, 232, 52, 6, 232, 199, 128, 102, 70, 59, 185, 134, 107, 201, 98, 1, 85, 153, 48, 95, 126, 172, 137,
                    141, 198, 215, 177, 198, 112, 64, 102 >>)
             @@
             (
              (<< 248, 81, 128, 128, 160, 160, 55, 87, 191, 65, 234, 3, 59, 73, 239, 113, 134, 143, 229, 234, 122, 152, 215, 191,
                  44, 162, 226, 64, 178, 168, 152, 185, 85, 223, 146, 16, 123, 128, 128, 128, 128, 128, 128, 128, 128, 128, 128, 128,
                  128, 128, 160, 170, 170, 170, 170, 170, 170, 170, 170, 170, 170, 170, 170, 170, 170, 170, 170, 170, 170, 170, 170, 170,
                  170, 170, 170, 170, 170, 170, 170, 170, 170, 170, 170 >>
               :> << 134, 15, 253, 71, 138, 45, 167, 56, 216, 168, 12, 207, 188, 190, 109, 55, 208, 153, 78, 187, 144, 79, 230, 6,
                     203, 251, 232, 125, 217, 246, 146, 24 >>)
              @@
              (<< 248, 81, 128, 128, 160, 180, 100, 126, 157, 63, 75, 21, 76, 59, 83, 175, 134, 99, 94, 12, 109, 25, 197, 203,
                  70, 3, 2, 97, 234, 177, 185, 135, 218, 84, 201, 53, 236, 128, 128, 128, 128, 128, 128, 128, 128, 128, 128, 128,
                  128, 128, 160, 170, 170, 170, 170, 170, 170, 170, 170, 170, 170, 170, 170, 170, 170, 170, 170, 170, 170, 170, 170, 170,
                  170, 170, 170, 170, 170, 170, 170, 170, 170, 170, 170 >>
               :> << 191, 174, 244, 240, 111, 175, 161, 205, 245, 9, 71, 174, 160, 195, 202, 61, 182, 81, 116, 220, 209, 158, 22, 151,
                     86, 91, 160, 142, 137, 187, 96, 1 >>)
             )
            )
           )
          )
         )
         @@
         (
          (
           (
            (
             (<< 248, 81, 128, 128, 160, 215, 133, 177, 175, 70, 14, 23, 98, 71, 101, 235, 46, 123, 155, 218, 113, 121, 114, 4,
                 29, 82, 161, 84, 49, 27, 238, 29, 146, 210, 67, 118, 111, 128, 128, 128, 128, 128, 128, 128, 128, 128, 128, 128,
                 128, 128, 160, 170, 170, 170, 170, 170, 170, 170, 170, 170, 170, 170, 170, 170, 170, 170, 170, 170, 170, 170, 170, 170,
                 170, 170, 170, 170, 170, 170, 170, 170, 170, 170, 170 >>
              :> << 98, 73, 234, 54, 131, 64, 1, 163, 57, 155, 97, 224, 8, 50, 79, 206, 164, 65, 7, 64, 29, 174, 94, 33,
                    246, 138, 173, 89, 184, 182, 45, 143 >>)
             @@
             (<< 248, 81, 128, 128, 160, 219, 234, 87, 12, 189, 96, 101, 213, 252, 102, 211, 178, 212, 49, 240, 83, 141, 108, 45,
                 230, 213, 229, 98, 253, 208, 170, 185, 132, 7, 166, 10, 145, 128, 128, 128, 128, 128, 128, 128, 128, 128, 128, 128,
                 128, 128, 160, 170, 170, 170, 170, 170, 170, 170, 170, 170, 170, 170, 170, 170, 170, 170, 170, 170, 170, 170, 170, 170,
                 170, 170, 170, 170, 170, 170, 170, 170, 170, 170, 170 >>
              :> << 46, 233, 141, 55, 132, 58, 103, 209, 193, 121, 247, 79, 240, 218, 32, 207, 177, 100, 28, 19, 25, 74, 21, 15,
                    199, 142, 136, 177, 155, 207, 57, 209 >>)
            )
            @@
            (
             (<< 248, 81, 128, 160, 1, 189, 157, 160, 165, 125, 95, 123, 206, 29, 82, 95, 6, 58, 243, 119, 55, 60, 251, 39,
                 70, 119, 20, 21, 4, 97, 234, 2, 4, 201, 254, 243, 128, 128, 128, 128, 128, 128, 128, 128, 128, 128, 128, 128,
                 128, 128, 160, 170, 170, 170, 170, 170, 170, 170, 170, 170, 170, 170, 170, 170, 170, 170, 170, 170, 170, 170, 170, 170,
                 170, 170, 170, 170, 170, 170, 170, 170, 170, 170, 170 >>
              :> << 183, 191, 108, 95, 110, 33, 164, 31, 203, 202, 246, 245, 109, 42, 4, 71, 0, 194, 79, 141, 253, 249, 149, 108,
                    221, 199, 193, 70, 178, 147, 139, 229 >>)
             @@
             (
              (<< 248, 81, 128, 160, 1, 189, 157, 160, 165, 125, 95, 123, 206, 29, 82, 95, 6, 58, 243, 119, 55, 60, 251, 39,
                  70, 119, 20, 21, 4, 97, 234, 2, 4, 201, 254, 243, 160, 237, 204, 219, 228, 55, 207, 164, 155, 250, 77, 24,
                  111, 217, 28, 160, 37, 123, 146, 10, 236, 6, 23, 173, 202, 14, 152, 134, 108, 215, 209, 151, 213, 128, 128, 128,
                  128, 128, 128, 128, 128, 128, 128, 128, 128, 128, 128 >>
               :> << 219, 207, 18, 235, 39, 197, 237, 172, 217, 173, 54, 201, 55, 71, 227, 146, 135, 214, 135, 129, 41, 186, 248, 176,
                     59, 255, 159, 241, 172, 222, 42, 195 >>)
              @@
              (<< 248, 81, 128, 160, 1, 189, 157, 160, 165, 125, 95, 123, 206, 29, 82, 95, 6, 58, 243, 119, 55, 60, 251, 39,
                  70, 119, 20, 21, 4, 97, 234, 2, 4, 201, 254, 243, 160, 249, 190, 130, 143, 214, 117, 37, 60, 46, 62, 205,
                  255, 67, 121, 222, 186, 180, 89, 243, 118, 183, 85, 79, 172, 25, 55, 71, 198, 118, 241, 15, 10, 128, 128, 128,
                  128, 128, 128, 128, 128, 128, 128, 128, 128, 128, 128 >>
               :> << 213, 158, 209, 212, 74, 39, 208, 249, 129, 198, 28, 122, 66, 165, 251, 53, 211, 217, 40, 76, 34, 249, 243, 106,
                     253, 47, 213, 55, 36, 37, 88, 175 >>)
             )
            )
           )
           @@
           (
            (
             (<< 248, 81, 128, 160, 8, 244, 231, 224, 70, 11, 187, 5, 67, 238, 151, 214, 147, 117, 139, 120, 57, 147, 22, 96,
                 98, 200, 78, 186, 126, 144, 184, 166, 9, 101, 147, 186, 128, 128, 128, 128, 128, 128, 128, 128, 128, 128, 128, 128,
                 128, 128, 160, 170, 170, 170, 170, 170, 170, 170, 170, 170, 170, 170, 170, 170, 170, 170, 170, 170, 170, 170, 170, 170,
                 170, 170, 170, 170, 170, 170, 170, 170, 170, 170, 170 >>
              :> << 18, 41, 140, 151, 20, 136, 197, 164, 17, 33, 193, 124, 130, 88, 5, 20, 89, 46, 50, 71, 116, 130, 217, 9,
                    215, 37, 225, 229, 242, 22, 226, 150 >>)
             @@
             (<< 248, 81, 128, 160, 11, 63, 142, 125, 85, 68, 169, 72, 89, 170, 81, 163, 208, 145, 49, 188, 183, 195, 139, 190,
                 231, 69, 55, 138, 83, 230, 160, 63, 183, 37, 95, 10, 128, 128, 128, 128, 128, 128, 128, 128, 128, 128, 128, 128,
                 128, 128, 160, 170, 170, 170, 170, 170, 170, 170, 170, 170, 170, 170, 170, 170, 170, 170, 170, 170, 170, 170, 170, 170,
                 170, 170, 170, 170, 170, 170, 170, 170, 170, 170, 170 >>
              :> << 104, 253, 225, 155, 47, 191, 11, 181, 235, 18, 86, 220, 173, 57, 3, 247, 125, 209, 247, 100, 24, 205, 20, 84,
                    44, 6, 132, 96, 9, 216, 6, 126 >>)
            )
            @@
            (
             (<< 248, 81, 128, 160, 15, 210, 121, 87, 19, 39, 9, 66, 180, 2, 58, 251, 48, 178, 87, 132, 197, 136, 32, 191,
                 237, 14, 224, 49, 250, 1, 163, 166, 100, 35, 60, 19, 128, 128, 128, 128, 128, 128, 128, 128, 128, 128, 128, 128,
                 128, 128, 160, 170, 170, 170, 170, 170, 170, 170, 170, 170, 170, 170, 170, 170, 170, 170, 170, 170, 170, 170, 170, 170,
                 170, 170, 170, 170, 170, 170, 170, 170, 170, 170, 170 >>
              :> << 160, 0, 30, 151, 211, 119, 190, 111, 206, 248, 91, 95, 146, 118, 5, 200, 166, 63, 231, 248, 52, 151, 230, 35,
                    23, 60, 127, 110, 149, 168, 173, 10 >>)
             @@
             (
              (<< 248, 81, 128, 160, 15, 210, 121, 87, 19, 39, 9, 66, 180, 2, 58, 251, 48, 178, 87, 132, 197, 136, 32, 191,
                  237, 14, 224, 49, 250, 1, 163, 166, 100, 35, 60, 19, 160, 15, 210, 121, 87, 19, 39, 9, 66, 180, 2, 58,
                  251, 48, 178, 87, 132, 197, 136, 32, 191, 237, 14, 224, 49, 250, 1, 163, 166, 100, 35, 60, 19, 128, 128, 128,
                  128, 128, 128, 128, 128, 128, 128, 128, 128, 128, 7 >>
               :> << 212, 67, 177, 7, 159, 127, 244, 21, 121, 79, 175, 242, 1, 57, 228, 15, 195, 127, 243, 191, 50, 223, 135, 24,
                     244, 49, 61, 253, 123, 231, 56, 93 >>)
              @@
              (<< 248, 81, 128, 160, 15, 210, 121, 87, 19, 39, 9, 66, 180, 2, 58, 251, 48, 178, 87, 132, 197, 136, 32, 191,
                  237, 14, 224, 49, 250, 1, 163, 166, 100, 35, 60, 19, 160, 15, 210, 121, 87, 19, 39, 9, 66, 180, 2, 58,
                  251, 48, 178, 87, 132, 197, 136, 32, 191, 237, 14, 224, 49, 250, 1, 163, 166, 100, 35, 60, 19, 128, 128, 128,
                  128, 128, 128, 128, 128, 128, 128, 128, 128, 128, 128 >>
               :> << 171, 245, 137, 102, 242, 253, 251, 67, 77, 183, 26, 19, 234, 15, 75, 233, 29, 208, 80, 72, 9, 246, 103, 127,
                     35, 148, 87, 147, 167, 103, 254, 217 >>)
             )
            )
           )
          )
          @@
          (
           (
            (
             (<< 248, 81, 128, 160, 15, 210, 121, 87, 19, 39, 9, 66, 180, 2, 58, 251, 48, 178, 87, 132, 197, 136, 32, 191,
                 237, 14, 224, 49, 250, 1, 163, 166, 100, 35, 60, 19, 160, 101, 217, 52, 11, 204, 251, 208, 88, 44, 75, 121,
                 112, 138, 247, 197, 140, 203, 240, 115, 227, 95, 29, 158, 162, 86, 151, 40, 37, 213, 155, 5, 240, 128, 128, 128,
                 128, 128, 128, 128, 128, 128, 128, 128, 128, 128, 7 >>
              :> << 112, 73, 127, 167, 72, 238, 215, 105, 21, 159, 155, 255, 4, 122, 119, 20, 184, 32, 170, 92, 27, 254, 158, 152,
                    5, 239, 94, 253, 219, 209, 199, 200 >>)
             @@
             (<< 248, 81, 128, 160, 15, 210, 121, 87, 19, 39, 9, 66, 180, 2, 58, 251, 48, 178, 87, 132, 197, 136, 32, 191,
                 237, 14, 224, 49, 250, 1, 163, 166, 100, 35, 60, 19, 160, 101, 217, 52, 11, 204, 251, 208, 88, 44, 75, 121,
                 112, 138, 247, 197, 140, 203, 240, 115, 227, 95, 29, 158, 162, 86, 151, 40, 37, 213, 155, 5, 240, 128, 128, 128,
                 128, 128, 128, 128, 128, 128, 128, 128, 128, 128, 128 >>
              :> << 181, 193, 119, 81, 49, 126, 8, 181, 164, 199, 37, 71, 123, 71, 50, 70, 177, 21, 124, 4, 191, 46, 48, 15,
                    225, 80, 176, 139, 193, 103, 134, 92 >>)
            )
            @@
            (
             (<< 248, 81, 128, 160, 15, 210, 121, 87, 19, 39, 9, 66, 180, 2, 58, 251, 48, 178, 87, 132, 197, 136, 32, 191,
                 237, 14, 224, 49, 250, 1, 163, 166, 100, 35, 60, 19, 160, 110, 20, 40, 238, 143, 128, 161, 48, 58, 182, 18,
                 178, 137, 253, 43, 150, 192, 237, 23, 37, 54, 122, 88, 220, 106, 174, 194, 164, 72, 96, 66, 208, 128, 128, 128,
                 128, 128, 128, 128, 128, 128, 128, 128, 128, 128, 7 >>
              :> << 24, 202, 145, 28, 23, 210, 243, 186, 211, 216, 231, 113, 155, 203, 133, 136, 240, 68, 182, 64, 219, 207, 218, 255,
                    70, 59, 255, 235, 199, 143, 148, 180 >>)
             @@
             (
              (<< 248, 81, 128, 160, 15, 210, 121, 87, 19, 39, 9, 66, 180, 2, 58, 251, 48, 178, 87, 132, 197, 136, 32, 191,
                  237, 14, 224, 49, 250, 1, 163, 166, 100, 35, 60, 19, 160, 110, 20, 40, 238, 143, 128, 161, 48, 58, 182, 18,
                  178, 137, 253, 43, 150, 192, 237, 23, 37, 54, 122, 88, 220, 106, 174, 194, 164, 72, 96, 66, 208, 128, 128, 128,
                  128, 128, 128, 128, 128, 128, 128, 128, 128, 128, 128 >>
               :> << 60, 59, 156, 213, 46, 85, 187, 77, 66, 125, 126, 96, 114, 8, 153, 66, 101, 132, 165, 14, 33, 122, 53, 149,
                     119, 242, 223, 250, 113, 105, 193, 26 >>)
              @@
              (<< 248, 81, 128, 160, 15, 210, 121, 87, 19, 39, 9, 66, 180, 2, 58, 251, 48, 178, 87, 132, 197, 136, 32, 191,
                  237, 14, 224, 49, 250, 1, 163, 166, 100, 35, 60, 19, 160, 133, 91, 225, 140, 224, 190, 115, 161, 244, 36, 216,
                  39, 113, 18, 199, 76, 17, 0, 183, 62, 123, 60, 41, 253, 46, 190, 54, 18, 35, 66, 204, 74, 128, 128, 128,
                  128, 128, 128, 128, 128, 128, 128, 128, 128, 128, 7 >>
               :> << 236, 155, 102, 143, 77, 143, 163, 233, 232, 235, 111, 237, 84, 97, 94, 242, 84, 50, 164, 152, 224, 130, 204, 207,
                     240, 178, 129, 184, 191, 0, 60, 136 >>)
             )
            )
           )
           @@
           (
            (
             (<< 248, 81, 128, 160, 15, 210, 121, 87, 19, 39, 9, 66, 180, 2, 58, 251, 48, 178, 87, 132, 197, 136, 32, 191,
                 237, 14, 224, 49, 250, 1, 163, 166, 100, 35, 60, 19, 160, 133, 91, 225, 140, 224, 190, 115, 161, 244, 36, 216,
                 39, 113, 18, 199, 76, 17, 0, 183, 62, 123, 60, 41, 253, 46, 190, 54, 18, 35, 66, 204, 74, 128, 128, 128,
                 128, 128, 128, 128, 128, 128, 128, 128, 128, 128, 128 >>
              :> << 61, 75, 169, 205, 160, 198, 0, 174, 71, 227, 0, 154, 0, 140, 207, 136, 18, 180, 117, 14, 177, 230, 111, 142,
                    68, 72, 3, 71, 104, 173, 146, 76 >>)
             @@
             (<< 248, 81, 128, 160, 15, 210, 121, 87, 19, 39, 9, 66, 180, 2, 58, 251, 48, 178, 87, 132, 197, 136, 32, 191,
                 237, 14, 224, 49, 250, 1, 163, 166, 100, 35, 60, 19, 160, 160, 55, 87, 191, 65, 234, 3, 59, 73, 239, 113,
                 134, 143, 229, 234, 122, 152, 215, 191, 44, 162, 226, 64, 178, 168, 152, 185, 85, 223, 146, 16, 123, 128, 128, 128,
                 128, 128, 128, 128, 128, 128, 128, 128, 128, 128, 7 >>
              :> << 20, 143, 27, 4, 120, 83, 2, 199, 146, 87, 189, 227, 157, 23, 42, 137, 152, 196, 19, 19, 92, 252, 30, 236,
                    120, 209, 91, 238, 84, 74, 182, 146 >>)
            )
            @@
            (
             (<< 248, 81, 128, 160, 15, 210, 121, 87, 19, 39, 9, 66, 180, 2, 58, 251, 48, 178, 87, 132, 197, 136, 32, 191,
                 237, 14, 224, 49, 250, 1, 163, 166, 100, 35, 60, 19, 160, 160, 55, 87, 191, 65, 234, 3, 59, 73, 239, 113,
                 134, 143, 229, 234, 122, 152, 215, 191, 44, 162, 226, 64, 178, 168, 152, 185, 85, 223, 146, 16, 123, 128, 128, 128,
                 128, 128, 128, 128, 128, 128, 128, 128, 128, 128, 128 >>
              :> << 77, 62, 6, 119, 80, 178, 122, 61, 157, 15, 245, 154, 200, 127, 49, 97, 93, 188, 58, 111, 185, 63, 58, 48,
                    106, 72, 2, 72, 192, 80, 249, 49 >>)
             @@
             (
              (<< 248, 81, 128, 160, 15, 210, 121, 87, 19, 39, 9, 66, 180, 2, 58, 251, 48, 178, 87, 132, 197, 136, 32, 191,
                  237, 14, 224, 49, 250, 1, 163, 166, 100, 35, 60, 19, 160, 211, 102, 187, 17, 52, 83, 109, 168, 35, 25, 170,
                  198, 86, 30, 155, 113, 162, 93, 203, 136, 140, 57, 89, 89, 24, 118, 177, 223, 169, 198, 68, 169, 128, 128, 128,
                  128, 128, 128, 128, 128, 128, 128, 128, 128, 128, 7 >>
               :> << 185, 47, 233, 27, 6, 115, 118, 46, 56, 78, 194, 190, 228, 135, 76, 183, 3, 95, 96, 78, 242, 138, 203, 100,
                     68, 53, 172, 176, 71, 177, 70, 10 >>)
              @@
              (<< 248, 81, 128, 160, 15, 210, 121, 87, 19, 39, 9, 66, 180, 2, 58, 251, 48, 178, 87, 132, 197, 136, 32, 191,
                  237, 14, 224, 49, 250, 1, 163, 166, 100, 35, 60, 19, 160, 211, 102, 187, 17, 52, 83, 109, 168, 35, 25, 170,
                  198, 86, 30, 155, 113, 162, 93, 203, 136, 140, 57, 89, 89, 24, 118, 177, 223, 169, 198, 68, 169, 128, 128, 128,
                  128, 128, 128, 128, 128, 128, 128, 128, 128, 128, 128 >>
               :> << 9, 67, 103, 196, 106, 23, 141, 229, 233, 123, 62, 137, 68, 94, 219, 98, 121, 15, 112, 140, 111, 173, 224, 24,
                     57, 160, 44, 165, 104, 186, 238, 182 >>)
             )
            )
           )
          )
         )
        )
       )
       @@
       (
        (
         (
          (
           (
            (
             (<< 248, 81, 128, 160, 15, 210, 121, 87, 19, 39, 9, 66, 180, 2, 58, 251, 48, 178, 87, 132, 197, 136, 32, 191,
                 237, 14, 224, 49, 250, 1, 163, 166, 100, 35, 60, 19, 160, 219, 234, 87, 12, 189, 96, 101, 213, 252, 102, 211,
                 178, 212, 49, 240, 83, 141, 108, 45, 230, 213, 229, 98, 253, 208, 170, 185, 132, 7, 166, 10, 145, 128, 128, 128,
                 128, 128, 128, 128, 128, 128, 128, 128, 128, 128, 7 >>
              :> << 206, 17, 197, 45, 243, 183, 12, 186, 182, 16, 13, 43, 58, 33, 39, 214, 143, 203, 179, 43, 140, 189, 152, 168,
                    150, 24, 223, 117, 31, 93, 60, 191 >>)
             @@
             (<< 248, 81, 128, 160, 15, 210, 121, 87, 19, 39, 9, 66, 180, 2, 58, 251, 48, 178, 87, 132, 197, 136, 32, 191,
                 237, 14, 224, 49, 250, 1, 163, 166, 100, 35, 60, 19, 160, 219, 234, 87, 12, 189, 96, 101, 213, 252, 102, 211,
                 178, 212, 49, 240, 83, 141, 108, 45, 230, 213, 229, 98, 253, 208, 170, 185, 132, 7, 166, 10, 145, 128, 128, 128,
                 128, 128, 128, 128, 128, 128, 128, 128, 128, 128, 128 >>
              :> << 190, 209, 174, 154, 60, 229, 255, 222, 121, 0, 180, 56, 125, 80, 229, 203, 123, 60, 97, 248, 143, 105, 38, 163,
                    156, 17, 185, 236, 176, 150, 175, 35 >>)
            )
            @@
            (
             (<< 248, 81, 128, 160, 15, 210, 121, 87, 19, 39, 9, 66, 180, 2, 58, 251, 48, 178, 87, 132, 197, 136, 32, 191,
                 237, 14, 224, 49, 250, 1, 163, 166, 100, 35, 60, 19, 160, 237, 204, 219, 228, 55, 207, 164, 155, 250, 77, 24,
                 111, 217, 28, 160, 37, 123, 146, 10, 236, 6, 23, 173, 202, 14, 152, 134, 108, 215, 209, 151, 213, 128, 128, 128,
                 128, 128, 128, 128, 128, 128, 128, 128, 128, 128, 7 >>
              :> << 59, 109, 85, 221, 14, 16, 68, 223, 146, 55, 111, 31, 71, 22, 168, 182, 37, 41, 44, 71, 7, 44, 31, 84,
                    233, 49, 58, 65, 92, 54, 254, 167 >>)
             @@
             (
              (<< 248, 81, 128, 160, 15, 210, 121, 87, 19, 39, 9, 66, 180, 2, 58, 251, 48, 178, 87, 132, 197, 136, 32, 191,
                  237, 14, 224, 49, 250, 1, 163, 166, 100, 35, 60, 19, 160, 237, 204, 219, 228, 55, 207, 164, 155, 250, 77, 24,
                  111, 217, 28, 160, 37, 123, 146, 10, 236, 6, 23, 173, 202, 14, 152, 134, 108, 215, 209, 151, 213, 128, 128, 128,
                  128, 128, 128, 128, 128, 128, 128, 128, 128, 128, 128 >>
               :> << 63, 58, 150, 212, 37, 108, 251, 8, 222, 5, 189, 89, 156, 193, 163, 41, 11, 114, 191, 239, 185, 251, 250, 123,
                     192, 132, 106, 139, 79, 212, 111, 161 >>)
              @@
              (<< 248, 81, 128, 160, 20, 251, 121, 127, 228, 21, 236, 58, 185, 228, 172, 158, 34, 160, 165, 165, 194, 96, 70, 208,
                  153, 150, 249, 190, 240, 13, 233, 39, 189, 61, 180, 100, 128, 128, 128, 128, 128, 128, 128, 128, 128, 128, 128, 128,
                  128, 128, 160, 170, 170, 170, 170, 170, 170, 170, 170, 170, 170, 170, 170, 170, 170, 170, 170, 170, 170, 170, 170, 170,
                  170, 170, 170, 170, 170, 170, 170, 170, 170, 170, 170 >>
               :> << 30, 46, 54, 125, 87, 121, 43, 233, 149, 112, 231, 196, 214, 119, 30, 193, 120, 54, 97, 204, 29, 65, 120, 60,
                     169, 241, 103, 34, 71, 142, 208, 12 >>)
             )
            )
           )
           @@
           (
            (
             (<< 248, 81, 128, 160, 25, 39, 2, 110, 88, 115, 121, 16, 228, 101, 56, 242, 53, 180, 211, 117, 103, 57, 134, 191,
                 73, 179, 56, 190, 86, 238, 48, 213, 61, 27, 53, 49, 160, 173, 100, 227, 164, 177, 4, 232, 227, 128, 186, 221,
                 104, 149, 36, 101, 82, 15, 240, 187, 119, 79, 48, 97, 250, 117, 5, 95, 195, 56, 254, 212, 94, 128, 128, 128,
                 128, 128, 128, 128, 128, 128, 128, 128, 128, 128, 128 >>
              :> << 180, 243, 251, 151, 176, 21, 1, 61, 195, 156, 74, 67, 121, 0, 156, 96, 79, 3, 9, 47, 33, 129, 179, 236,
                    197, 120, 88, 54, 231, 240, 204, 11 >>)
             @@
             (<< 248, 81, 128, 160, 28, 24, 41, 172, 146, 115, 193, 171, 132, 44, 202, 171, 221, 128, 90, 195, 112, 64, 167, 205,
                 150, 6, 121, 164, 155, 211, 64, 188, 127, 89, 217, 134, 128, 128, 128, 128, 128, 128, 128, 128, 128, 128, 128, 128,
                 128, 128, 160, 170, 170, 170, 170, 170, 170, 170, 170, 170, 170, 170, 170, 170, 170, 170, 170, 170, 170, 170, 170, 170,
                 170, 170, 170, 170, 170, 170, 170, 170, 170, 170, 170 >>
              :> << 227, 57, 33, 115, 219, 106, 232, 123, 7, 117, 68, 205, 86, 237, 216, 230, 121, 52, 4, 224, 111, 234, 146, 131,
                    155, 96, 4, 58, 24, 30, 91, 180 >>)
            )
            @@
            (
             (<< 248, 81, 128, 160, 47, 152, 163, 43, 79, 128, 39, 97, 255, 197, 212, 89, 55, 50, 121, 117, 162, 120, 195, 194,
                 109, 101, 6, 213, 169, 177, 130, 61, 206, 106, 148, 102, 160, 237, 204, 219, 228, 55, 207, 164, 155, 250, 77, 24,
                 111, 217, 28, 160, 37, 123, 146, 10, 236, 6, 23, 173, 202, 14, 152, 134, 108, 215, 209, 151, 213, 128, 128, 128,
                 128, 128, 128, 128, 128, 128, 128, 128, 128, 128, 128 >>
              :> << 74, 36, 156, 158, 22, 225, 21, 247, 118, 100, 109, 196, 2, 238, 175, 108, 240, 86, 61, 248, 11, 122, 21, 144,
                    225, 117, 206, 21, 100, 47, 8, 212 >>)
             @@
             (
              (<< 248, 81, 128, 160, 47, 152, 163, 43, 79, 128, 39, 97, 255, 197, 212, 89, 55, 50, 121, 117, 162, 120, 195, 194,
                  109, 101, 6, 213, 169, 177, 130, 61, 206, 106, 148, 102, 160, 249, 190, 130, 143, 214, 117, 37, 60, 46, 62, 205,
                  255, 67, 121, 222, 186, 180, 89, 243, 118, 183, 85, 79, 172, 25, 55, 71, 198, 118, 241, 15, 10, 128, 128, 128,
                  128, 128, 128, 128, 128, 128, 128, 128, 128, 128, 128 >>
               :> << 120, 140, 254, 208, 112, 133, 80, 24, 104, 207, 66, 26, 163, 219, 232, 72, 229, 17, 85, 124, 48, 174, 55, 242,
                     75, 81, 44, 245, 137, 254, 187, 65 >>)
              @@
              (<< 248, 81, 128, 160, 51, 176, 29, 9, 7, 64, 193, 203, 246, 168, 101, 88, 186, 82, 51, 150, 234, 153, 252, 132,
                  229, 119, 22, 26, 24, 61, 183, 78, 58, 6, 171, 179, 128, 128, 128, 128, 128, 128, 128, 128, 128, 128, 128, 128,
                  128, 128, 160, 170, 170, 170, 170, 170, 170, 170, 170, 170, 170, 170, 170, 170, 170, 170, 170, 170, 170, 170, 170, 170,
                  170, 170, 170, 170, 170, 170, 170, 170, 170, 170, 170 >>
               :> << 144, 183, 21, 207, 224, 145, 161, 102, 123, 167, 146, 124, 152, 16, 129, 75, 85, 216, 236, 250, 212, 79, 120, 92,
                     198, 159, 191, 65, 247, 226, 123, 101 >>)
             )
            )
           )
          )
          @@
          (
           (
            (
             (<< 248, 81, 128, 160, 63, 27, 126, 228, 3, 156, 248, 81, 206, 248, 210, 225, 195, 32, 24, 148, 26, 120, 85, 182,
                 227, 158, 34, 191, 26, 120, 218, 69, 186, 55, 122, 10, 128, 128, 128, 128, 128, 128, 128, 128, 128, 128, 128, 128,
                 128, 128, 160, 170, 170, 170, 170, 170, 170, 170, 170, 170, 170, 170, 170, 170, 170, 170, 170, 170, 170, 170, 170, 170,
                 170, 170, 170, 170, 170, 170, 170, 170, 170, 170, 170 >>
              :> << 172, 111, 130, 232, 208, 212, 9, 20, 215, 103, 129, 179, 46, 127, 165, 226, 70, 230, 60, 68, 246, 187, 141, 112,
                    96, 160, 82, 92, 214, 12, 111, 244 >>)
             @@
             (<< 248, 81, 128, 160, 66, 182, 240, 133, 228, 12, 238, 52, 51, 53, 90, 111, 131, 193, 55, 108, 45, 119, 195, 171,
                 143, 94, 236, 210, 158, 6, 160, 141, 192, 185, 117, 118, 160, 173, 100, 227, 164, 177, 4, 232, 227, 128, 186, 221,
                 104, 149, 36, 101, 82, 15, 240, 187, 119, 79, 48, 97, 250, 117, 5, 95, 195, 56, 254, 212, 94, 128, 128, 128,
                 128, 128, 128, 128, 128, 128, 128, 128, 128, 128, 128 >>
              :> << 31, 21, 84, 227, 32, 20, 179, 245, 29, 43, 32, 55, 98, 155, 34, 206, 142, 171, 239, 58, 230, 183, 143, 246,
                    137, 74, 105, 43, 124, 208, 114, 49 >>)
            )
            @@
            (
             (<< 248, 81, 128, 160, 74, 36, 156, 158, 22, 225, 21, 247, 118, 100, 109, 196, 2, 238, 175, 108, 240, 86, 61, 248,
                 11, 122, 21, 144, 225, 117, 206, 21, 100, 47, 8, 212, 128, 128, 128, 128, 128, 128, 128, 128, 128, 128, 128, 128,
                 128, 128, 160, 170, 170, 170, 170, 170, 170, 170, 170, 170, 170, 170, 170, 170, 170, 170, 170, 170, 170, 170, 170, 170,
                 170, 170, 170, 170, 170, 170, 170, 170, 170, 170, 170 >>
              :> << 96, 150, 112, 237, 233, 82, 219, 53, 122, 226, 113, 249, 27, 103, 2, 106, 84, 157, 182, 148, 45, 59, 150, 241,
                    54, 240, 105, 149, 222, 190, 208, 201 >>)
             @@
             (
              (<< 248, 81, 128, 160, 78, 145, 110, 51, 81, 159, 141, 181, 215, 2, 96, 6, 216, 65, 193, 198, 18, 87, 25, 221,
                  74, 123, 242, 24, 116, 197, 183, 193, 85, 165, 206, 114, 128, 128, 128, 128, 128, 128, 128, 128, 128, 128, 128, 128,
                  128, 128, 160, 170, 170, 170, 170, 170, 170, 170, 170, 170, 170, 170, 170, 170, 170, 170, 170, 170, 170, 170, 170, 170,
                  170, 170, 170, 170, 170, 170, 170, 170, 170, 170, 170 >>
               :> << 176, 106, 158, 252, 155, 235, 156, 31, 226, 72, 80, 115, 139, 222, 25, 251, 48, 171, 88, 223, 122, 167, 172, 143,
                     13, 19, 102, 119, 56, 68, 208, 36 >>)
              @@
              (<< 248, 81, 128, 160, 93, 2, 0, 41, 41, 151, 146, 112, 10, 93, 21, 164, 168, 60, 100, 98, 47, 234, 186, 242,
                  172, 140, 222, 167, 82, 7, 41, 69, 17, 115, 58, 118, 128, 128, 128, 128, 128, 128, 128, 128, 128, 128, 128, 128,
                  128, 128, 160, 170, 170, 170, 170, 170, 170, 170, 170, 170, 170, 170, 170, 170, 170, 170, 170, 170, 170, 170, 170, 170,
                  170, 170, 170, 170, 170, 170, 170, 170, 170, 170, 170 >>
               :> << 238, 6, 127, 215, 230, 35, 173, 14, 5, 168, 123, 153, 220, 207, 112, 78, 179, 158, 22, 60, 103, 249, 20, 243,
                     209, 167, 5, 219, 155, 112, 155, 103 >>)
             )
            )
           )
           @@
           (
            (
             (<< 248, 81, 128, 160, 93, 229, 103, 118, 159, 60, 147, 111, 85, 151, 85, 195, 27, 12, 105, 125, 124, 96, 35, 121,
                 148, 158, 226, 49, 50, 196, 25, 140, 66, 239, 200, 46, 128, 128, 128, 128, 128, 128, 128, 128, 128, 128, 128, 128,
                 128, 128, 160, 170, 170, 170, 170, 170, 170, 170, 170, 170, 170, 170, 170, 170, 170, 170, 170, 170, 170, 170, 170, 170,
                 170, 170, 170, 170, 170, 170, 170, 170, 170, 170, 170 >>
              :> << 60, 129, 88, 90, 68, 75, 143, 46, 85, 248, 200, 12, 14, 115, 218, 180, 2, 25, 199, 75, 8, 243, 236, 180,
                    204, 68, 15, 128, 170, 91, 193, 164 >>)
             @@
             (<< 248, 81, 128, 160, 99, 11, 168, 39, 26, 214, 41, 128, 114, 232, 9, 17, 239, 19, 248, 231, 197, 102, 32, 249,
                 156, 185, 140, 106, 19, 8, 27, 72, 40, 152, 142, 166, 128, 128, 128, 128, 128, 128, 128, 128, 128, 128, 128, 128,
                 128, 128, 160, 170, 170, 170, 170, 170, 170, 170, 170, 170, 170, 170, 170, 170, 170, 170, 170, 170, 170, 170, 170, 170,
                 170, 170, 170, 170, 170, 170, 170, 170, 170, 170, 170 >>
              :> << 100, 63, 142, 228, 185, 12, 126, 157, 136, 35, 245, 30, 112, 59, 69, 227, 65, 145, 110, 77, 6, 132, 182, 79,
                    174, 192, 16, 39, 11, 210, 187, 109 >>)
            )
            @@
            (
             (<< 248, 81, 128, 160, 101, 217, 52, 11, 204, 251, 208, 88, 44, 75, 121, 112, 138, 247, 197, 140, 203, 240, 115, 227,
                 95, 29, 158, 162, 86, 151, 40, 37, 213, 155, 5, 240, 128, 128, 128, 128, 128, 128, 128, 128, 128, 128, 128, 128,
                 128, 128, 160, 170, 170, 170, 170, 170, 170, 170, 170, 170, 170, 170, 170, 170, 170, 170, 170, 170, 170, 170, 170, 170,
                 170, 170, 170, 170, 170, 170, 170, 170, 170, 170, 170 >>
              :> << 74, 10, 42, 37, 134, 147, 215, 19, 131, 162, 225, 9, 22, 74, 118, 196, 218, 254, 98, 32, 78, 68, 135, 17,
                    31, 55, 239, 231, 207, 30, 193, 235 >>)
             @@
             (
              (<< 248, 81, 128, 160, 101, 217, 52, 11, 204, 251, 208, 88, 44, 75, 121, 112, 138, 247, 197, 140, 203, 240, 115, 227,
                  95, 29, 158, 162, 86, 151, 40, 37, 213, 155, 5, 240, 160, 15, 210, 121, 87, 19, 39, 9, 66, 180, 2, 58,
                  251, 48, 178, 87, 132, 197, 136, 32, 191, 237, 14, 224, 49, 250, 1, 163, 166, 100, 35, 60, 19, 128, 128, 128,
                  128, 128, 128, 128, 128, 128, 128, 128, 128, 128, 7 >>
               :> << 126, 98, 140, 186, 57, 95, 100, 166, 175, 199, 67, 27, 30, 124, 138, 165, 32, 53, 203, 244, 195, 63, 11, 24,
                     252, 113, 62, 255, 244, 242, 39, 165 >>)
              @@
              (<< 248, 81, 128, 160, 101, 217, 52, 11, 204, 251, 208, 88, 44, 75, 121, 112, 138, 247, 197, 140, 203, 240, 115, 227,
                  95, 29, 158, 162, 86, 151, 40, 37, 213, 155, 5, 240, 160, 15, 210, 121, 87, 19, 39, 9, 66, 180, 2, 58,
                  251, 48, 178, 87, 132, 197, 136, 32, 191, 237, 14, 224, 49, 250, 1, 163, 166, 100, 35, 60, 19, 128, 128, 128,
                  128, 128, 128, 128, 128, 128, 128, 128, 128, 128, 128 >>
               :> << 240, 8, 45, 112, 191, 103, 82, 30, 144, 244, 30, 233, 78, 4, 115, 206, 59, 153, 30, 66, 0, 158, 212, 85,
                     20, 171, 72, 197, 162, 97, 34, 121 >>)
             )
            )
           )
          )
         )
         @@
         (
          (
           (
            (
             (<< 248, 81, 128, 160, 101, 217, 52, 11, 204, 251, 208, 88, 44, 75, 121, 112, 138, 247, 197, 140, 203, 240, 115, 227,
                 95, 29, 158, 162, 86, 151, 40, 37, 213, 155, 5, 240, 160, 101, 217, 52, 11, 204, 251, 208, 88, 44, 75, 121,
                 112, 138, 247, 197, 140, 203, 240, 115, 227, 95, 29, 158, 162, 86, 151, 40, 37, 213, 155, 5, 240, 128, 128, 128,
                 128, 128, 128, 128, 128, 128, 128, 128, 128, 128, 7 >>
              :> << 80, 104, 46, 178, 63, 251, 17, 203, 129, 30, 132, 209, 102, 247, 226, 193, 0, 156, 22, 6, 171, 158, 206, 120,
                    136, 161, 236, 255, 154, 158, 16, 178 >>)
             @@
             (<< 248, 81, 128, 160, 101, 217, 52, 11, 204, 251, 208, 88, 44, 75, 121, 112, 138, 247, 197, 140, 203, 240, 115, 227,
                 95, 29, 158, 162, 86, 151, 40, 37, 213, 155, 5, 240, 160, 101, 217, 52, 11, 204, 251, 208, 88, 44, 75, 121,
                 112, 138, 247, 197, 140, 203, 240, 115, 227, 95, 29, 158, 162, 86, 151, 40, 37, 213, 155, 5, 240, 128, 128, 128,
                 128, 128, 128, 128, 128, 128, 128, 128, 128, 128, 128 >>
              :> << 206, 105, 250, 144, 243, 143, 102, 142, 112, 51, 141, 142, 209, 24, 13, 186, 149, 57, 45, 95, 11, 3, 92, 7,
                    180, 79, 96, 138, 106, 83, 160, 232 >>)
            )
            @@
            (
             (<< 248, 81, 128, 160, 101, 217, 52, 11, 204, 251, 208, 88, 44, 75, 121, 112, 138, 247, 197, 140, 203, 240, 115, 227,
                 95, 29, 158, 162, 86, 151, 40, 37, 213, 155, 5, 240, 160, 110, 20, 40, 238, 143, 128, 161, 48, 58, 182, 18,
                 178, 137, 253, 43, 150, 192, 237, 23, 37, 54, 122, 88, 220, 106, 174, 194, 164, 72, 96, 66, 208, 128, 128, 128,
                 128, 128, 128, 128, 128, 128, 128, 128, 128, 128, 7 >>
              :> << 160, 101, 181, 145, 104, 229, 196, 46, 55, 46, 133, 235, 78, 89, 225, 234, 59, 134, 46, 254, 94, 198, 4, 36,
                    199, 207, 145, 133, 21, 14, 182, 40 >>)
             @@
             (
              (<< 248, 81, 128, 160, 101, 217, 52, 11, 204, 251, 208, 88, 44, 75, 121, 112, 138, 247, 197, 140, 203, 240, 115, 227,
                  95, 29, 158, 162, 86, 151, 40, 37, 213, 155, 5, 240, 160, 110, 20, 40, 238, 143, 128, 161, 48, 58, 182, 18,
                  178, 137, 253, 43, 150, 192, 237, 23, 37, 54, 122, 88, 220, 106, 174, 194, 164, 72, 96, 66, 208, 128, 128, 128,
                  128, 128, 128, 128, 128, 128, 128, 128, 128, 128, 128 >>
               :> << 6, 238, 172, 240, 109, 243, 88, 242, 131, 195, 235, 142, 214, 183, 249, 123, 47, 49, 254, 46, 147, 206, 19, 111,
                     14, 11, 61, 13, 168, 51, 58, 221 >>)
              @@
              (<< 248, 81, 128, 160, 101, 217, 52, 11, 204, 251, 208, 88, 44, 75, 121, 112, 138, 247, 197, 140, 203, 240, 115, 227,
                  95, 29, 158, 162, 86, 151, 40, 37, 213, 155, 5, 240, 160, 133, 91, 225, 140, 224, 190, 115, 161, 244, 36, 216,
                  39, 113, 18, 199, 76, 17, 0, 183, 62, 123, 60, 41, 253, 46, 190, 54, 18, 35, 66, 204, 74, 128, 128, 128,
                  128, 128, 128, 128, 128, 128, 128, 128, 128, 128, 7 >>
               :> << 217, 220, 243, 63, 189, 181, 64, 192, 183, 14, 187, 35, 42, 28, 230, 196, 149, 145, 98, 91, 233, 151, 126, 209,
                     79, 162, 230, 95, 174, 196, 28, 82 >>)
             )
            )
           )
           @@
           (
            (
             (<< 248, 81, 128, 160, 101, 217, 52, 11, 204, 251, 208, 88, 44, 75, 121, 112, 138, 247, 197, 140, 203, 240, 115, 227,
                 95, 29, 158, 162, 86, 151, 40, 37, 213, 155, 5, 240, 160, 133, 91, 225, 140, 224, 190, 115, 161, 244, 36, 216,
                 39, 113, 18, 199, 76, 17, 0, 183, 62, 123, 60, 41, 253, 46, 190, 54, 18, 35, 66, 204, 74, 128, 128, 128,
                 128, 128, 128, 128, 128, 128, 128, 128, 128, 128, 128 >>
              :> << 178, 192, 172, 215, 55, 141, 226, 23, 144, 30, 250, 206, 28, 167, 48, 201, 132, 28, 248, 218, 214, 160, 13, 162,
                    94, 247, 46, 207, 135, 222, 201, 63 >>)
             @@
             (<< 248, 81, 128, 160, 101, 217, 52, 11, 204, 251, 208, 88, 44, 75, 121, 112, 138, 247, 197, 140, 203, 240, 115, 227,
                 95, 29, 158, 162, 86, 151, 40, 37, 213, 155, 5, 240, 160, 160, 55, 87, 191, 65, 234, 3, 59, 73, 239, 113,
                 134, 143, 229, 234, 122, 152, 215, 191, 44, 162, 226, 64, 178, 168, 152, 185, 85, 223, 146, 16, 123, 128, 128, 128,
                 128, 128, 128, 128, 128, 128, 128, 128, 128, 128, 7 >>
              :> << 203, 104, 120, 43, 249, 114, 210, 193, 168, 47, 248, 101, 235, 57, 38, 239, 96, 70, 9, 185, 7, 67, 135, 254,
                    120, 29, 189, 188, 33, 88, 9, 57 >>)
            )
            @@
            (
             (<< 248, 81, 128, 160, 101, 217, 52, 11, 204, 251, 208, 88, 44, 75, 121, 112, 138, 247, 197, 140, 203, 240, 115, 227,
                 95, 29, 158, 162, 86, 151, 40, 37, 213, 155, 5, 240, 160, 160, 55, 87, 191, 65, 234, 3, 59, 73, 239, 113,
                 134, 143, 229, 234, 122, 152, 215, 191, 44, 162, 226, 64, 178, 168, 152, 185, 85, 223, 146, 16, 123, 128, 128, 128,
                 128, 128, 128, 128, 128, 128, 128, 128, 128, 128, 128 >>
              :> << 216, 61, 123, 211, 212, 30, 230, 114, 123, 102, 196, 47, 252, 248, 120, 205, 37, 86, 157, 130, 47, 135, 42, 171,
                    150, 43, 24, 187, 36, 179, 218, 241 >>)
             @@
             (
              (<< 248, 81, 128, 160, 101, 217, 52, 11, 204, 251, 208, 88, 44, 75, 121, 112, 138, 247, 197, 140, 203, 240, 115, 227,
                  95, 29, 158, 162, 86, 151, 40, 37, 213, 155, 5, 240, 160, 211, 102, 187, 17, 52, 83, 109, 168, 35, 25, 170,
                  198, 86, 30, 155, 113, 162, 93, 203, 136, 140, 57, 89, 89, 24, 118, 177, 223, 169, 198, 68, 169, 128, 128, 128,
                  128, 128, 128, 128, 128, 128, 128, 128, 128, 128, 7 >>
               :> << 238, 243, 119, 82, 162, 133, 132, 31, 176, 223, 2, 207, 38, 32, 234, 198, 219, 16, 150, 105, 42, 129, 56, 58,
                     31, 61, 138, 119, 41, 158, 90, 193 >>)
              @@
              (<< 248, 81, 128, 160, 101, 217, 52, 11, 204, 251, 208, 88, 44, 75, 121, 112, 138, 247, 197, 140, 203, 240, 115, 227,
                  95, 29, 158, 162, 86, 151, 40, 37, 213, 155, 5, 240, 160, 211, 102, 187, 17, 52, 83, 109, 168, 35, 25, 170,
                  198, 86, 30, 155, 113, 162, 93, 203, 136, 140, 57, 89, 89, 24, 118, 177, 223, 169, 198, 68, 169, 128, 128, 128,
                  128, 128, 128, 128, 128, 128, 128, 128, 128, 128, 128 >>
               :> << 111, 230, 250, 153, 186, 139, 10, 110, 52, 26, 142, 190, 240, 191, 98, 89, 253, 118, 242, 66, 123, 89, 180, 241,
                     182, 51, 21, 245, 32, 21, 202, 160 >>)
             )
            )
           )
          )
          @@
          (
           (
            (
             (<< 248, 81, 128, 160, 101, 217, 52, 11, 204, 251, 208, 88, 44, 75, 121, 112, 138, 247, 197, 140, 203, 240, 115, 227,
                 95, 29, 158, 162, 86, 151, 40, 37, 213, 155, 5, 240, 160, 219, 234, 87, 12, 189, 96, 101, 213, 252, 102, 211,
                 178, 212, 49, 240, 83, 141, 108, 45, 230, 213, 229, 98, 253, 208, 170, 185, 132, 7, 166, 10, 145, 128, 128, 128,
                 128, 128, 128, 128, 128, 128, 128, 128, 128, 128, 7 >>
              :> << 249, 28, 155, 12, 233, 43, 21, 246, 87, 215, 30, 75, 229, 101, 32, 140, 149, 112, 234, 211, 208, 206, 213, 191,
                    191, 188, 56, 92, 246, 244, 168, 245 >>)
             @@
             (<< 248, 81, 128, 160, 101, 217, 52, 11, 204, 251, 208, 88, 44, 75, 121, 112, 138, 247, 197, 140, 203, 240, 115, 227,
                 95, 29, 158, 162, 86, 151, 40, 37, 213, 155, 5, 240, 160, 219, 234, 87, 12, 189, 96, 101, 213, 252, 102, 211,
                 178, 212, 49, 240, 83, 141, 108, 45, 230, 213, 229, 98, 253, 208, 170, 185, 132, 7, 166, 10, 145, 128, 128, 128,
                 128, 128, 128, 128, 128, 128, 128, 128, 128, 128, 128 >>
              :> << 163, 97, 63, 235, 38, 86, 84, 200, 119, 30, 170, 249, 93, 73, 179, 173, 87, 147, 131, 72, 71, 179, 115, 6,
                    89, 244, 64, 173, 23, 160, 238, 33 >>)
            )
            @@
            (
             (<< 248, 81, 128, 160, 101, 217, 52, 11, 204, 251, 208, 88, 44, 75, 121, 112, 138, 247, 197, 140, 203, 240, 115, 227,
                 95, 29, 158, 162, 86, 151, 40, 37, 213, 155, 5, 240, 160, 237, 204, 219, 228, 55, 207, 164, 155, 250, 77, 24,
                 111, 217, 28, 160, 37, 123, 146, 10, 236, 6, 23, 173, 202, 14, 152, 134, 108, 215, 209, 151, 213, 128, 128, 128,
                 128, 128, 128, 128, 128, 128, 128, 128, 128, 128, 7 >>
              :> << 135, 112, 227, 163, 96, 5, 26, 181, 232, 233, 206, 216, 19, 106, 19, 80, 29, 181, 210, 76, 65, 41, 70, 44,
                    126, 37, 151, 222, 206, 216, 98, 109 >>)
             @@
             (
              (<< 248, 81, 128, 160, 101, 217, 52, 11, 204, 251, 208, 88, 44, 75, 121, 112, 138, 247, 197, 140, 203, 240, 115, 227,
                  95, 29, 158, 162, 86, 151, 40, 37, 213, 155, 5, 240, 160, 237, 204, 219, 228, 55, 207, 164, 155, 250, 77, 24,
                  111, 217, 28, 160, 37, 123, 146, 10, 236, 6, 23, 173, 202, 14, 152, 134, 108, 215, 209, 151, 213, 128, 128, 128,
                  128, 128, 128, 128, 128, 128, 128, 128, 128, 128, 128 >>
               :> << 178, 182, 169, 138, 220, 65, 77, 254, 211, 143, 219, 94, 87, 139, 165, 25, 31, 195, 51, 236, 196, 134, 215, 130,
                     219, 104, 85, 170, 201, 8, 126, 180 >>)
              @@
              (<< 248, 81, 128, 160, 104, 29, 79, 180, 230, 21, 220, 34, 109, 205, 95, 116, 131, 172, 87, 116, 254, 11, 91, 125,
                  185, 174, 142, 11, 151, 105, 255, 78, 164, 161, 216, 54, 160, 173, 100, 227, 164, 177, 4, 232, 227, 128, 186, 221,
                  104, 149, 36, 101, 82, 15, 240, 187, 119, 79, 48, 97, 250, 117, 5, 95, 195, 56, 254, 212, 94, 128, 128, 128,
                  128, 128, 128, 128, 128, 128, 128, 128, 128, 128, 128 >>
               :> << 7, 78, 39, 129, 1, 74, 197, 196, 199, 229, 74, 193, 133, 219, 3, 152, 147, 215, 122, 134, 244, 79, 175, 203,
                     125, 239, 161, 115, 202, 149, 27, 88 >>)
             )
            )
           )
           @@
           (
            (
             (<< 248, 81, 128, 160, 104, 104, 127, 242, 174, 212, 120, 211, 207, 176, 183, 197, 43, 201, 55, 116, 231, 80, 57, 67,
                 190, 254, 89, 180, 79, 226, 230, 124, 115, 117, 134, 121, 128, 128, 128, 128, 128, 128, 128, 128, 128, 128, 128, 128,
                 128, 128, 160, 170, 170, 170, 170, 170, 170, 170, 170, 170, 170, 170, 170, 170, 170, 170, 170, 170, 170, 170, 170, 170,
                 170, 170, 170, 170, 170, 170, 170, 170, 170, 170, 170 >>
              :> << 190, 177, 3, 146, 15, 6, 123, 46, 253, 61, 134, 30, 45, 137, 245, 234, 81, 160, 107, 104, 69, 118, 93, 134,
                    157, 36, 80, 94, 36, 67, 23, 82 >>)
             @@
             (<< 248, 81, 128, 160, 105, 222, 156, 178, 92, 16, 224, 192, 239, 211, 36, 109, 179, 16, 217, 220, 137, 72, 32, 38,
                 194, 160, 220, 110, 146, 14, 202, 243, 37, 128, 121, 190, 128, 128, 128, 128, 128, 128, 128, 128, 128, 128, 128, 128,
                 128, 128, 160, 170, 170, 170, 170, 170, 170, 170, 170, 170, 170, 170, 170, 170, 170, 170, 170, 170, 170, 170, 170, 170,
                 170, 170, 170, 170, 170, 170, 170, 170, 170, 170, 170 >>
              :> << 85, 5, 228, 220, 61, 133, 95, 107, 169, 236, 88, 140, 67, 73, 44, 35, 162, 39, 234, 44, 109, 92, 21, 208,
                    239, 244, 162, 158, 68, 34, 186, 29 >>)
            )
            @@
            (
             (<< 248, 81, 128, 160, 110, 20, 40, 238, 143, 128, 161, 48, 58, 182, 18, 178, 137, 253, 43, 150, 192, 237, 23, 37,
                 54, 122, 88, 220, 106, 174, 194, 164, 72, 96, 66, 208, 160, 15, 210, 121, 87, 19, 39, 9, 66, 180, 2, 58,
                 251, 48, 178, 87, 132, 197, 136, 32, 191, 237, 14, 224, 49, 250, 1, 163, 166, 100, 35, 60, 19, 128, 128, 128,
                 128, 128, 128, 128, 128, 128, 128, 128, 128, 128, 7 >>
              :> << 231, 103, 166, 61, 232, 185, 121, 153, 129, 1, 242, 219, 95, 202, 70, 179, 130, 236, 34, 93, 81, 44, 93, 32,
                    246, 224, 236, 101, 75, 222, 75, 5 >>)
             @@
             (
              (<< 248, 81, 128, 160, 110, 20, 40, 238, 143, 128, 161, 48, 58, 182, 18, 178, 137, 253, 43, 150, 192, 237, 23, 37,
                  54, 122, 88, 220, 106, 174, 194, 164, 72, 96, 66, 208, 160, 15, 210, 121, 87, 19, 39, 9, 66, 180, 2, 58,
                  251, 48, 178, 87, 132, 197, 136, 32, 191, 237, 14, 224, 49, 250, 1, 163, 166, 100, 35, 60, 19, 128, 128, 128,
                  128, 128, 128, 128, 128, 128, 128, 128, 128, 128, 128 >>
               :> << 168, 157, 184, 123, 171, 206, 49, 184, 100, 18, 126, 225, 209, 191, 41, 159, 231, 3, 67, 100, 98, 207, 27, 73,
                     64, 56, 31, 63, 206, 102, 207, 187 >>)
              @@
              (<< 248, 81, 128, 160, 110, 20, 40, 238, 143, 128, 161, 48, 58, 182, 18, 178, 137, 253, 43, 150, 192, 237, 23, 37,
                  54, 122, 88, 220, 106, 174, 194, 164, 72, 96, 66, 208, 160, 88, 229, 152, 11, 171, 205, 76, 6, 151, 0, 132,
                  63, 158, 59, 25, 97, 35, 48, 135, 27, 208, 85, 193, 111, 231, 242, 142, 9, 140, 108, 232, 148, 128, 128, 128,
                  128, 128, 128, 128, 128, 128, 128, 128, 128, 128, 128 >>
               :> << 18, 217, 67, 203, 2, 212, 132, 28, 119, 149, 171, 163, 135, 177, 52, 241, 59, 27, 99, 188, 172, 205, 224, 177,
                     72, 45, 54, 71, 243, 179, 159, 79 >>)
             )
            )
           )
          )
         )
        )
        @@
        (
         (
          (
           (
            (
             (<< 248, 81, 128, 160, 110, 20, 40, 238, 143, 128, 161, 48, 58, 182, 18, 178, 137, 253, 43, 150, 192, 237, 23, 37,
                 54, 122, 88, 220, 106, 174, 194, 164, 72, 96, 66, 208, 160, 98, 73, 234, 54, 131, 64, 1, 163, 57, 155, 97,
                 224, 8, 50, 79, 206, 164, 65, 7, 64, 29, 174, 94, 33, 246, 138, 173, 89, 184, 182, 45, 143, 128, 128, 128,
                 128, 128, 128, 128, 128, 128, 128, 128, 128, 128, 128 >>
              :> << 185, 225, 136, 228, 185, 175, 158, 57, 108, 192, 181, 211, 216, 8, 199, 31, 21, 49, 17, 171, 154, 18, 27, 214,
                    196, 92, 236, 26, 241, 220, 2, 79 >>)
             @@
             (<< 248, 81, 128, 160, 110, 20, 40, 238, 143, 128, 161, 48, 58, 182, 18, 178, 137, 253, 43, 150, 192, 237, 23, 37,
                 54, 122, 88, 220, 106, 174, 194, 164, 72, 96, 66, 208, 160, 101, 217, 52, 11, 204, 251, 208, 88, 44, 75, 121,
                 112, 138, 247, 197, 140, 203, 240, 115, 227, 95, 29, 158, 162, 86, 151, 40, 37, 213, 155, 5, 240, 128, 128, 128,
                 128, 128, 128, 128, 128, 128, 128, 128, 128, 128, 7 >>
              :> << 4, 44, 177, 185, 221, 159, 164, 37, 142, 252, 55, 87, 27, 20, 170, 46, 226, 176, 200, 213, 215, 169, 251, 61,
                    144, 111, 247, 233, 1, 252, 234, 214 >>)
            )
            @@
            (
             (<< 248, 81, 128, 160, 110, 20, 40, 238, 143, 128, 161, 48, 58, 182, 18, 178, 137, 253, 43, 150, 192, 237, 23, 37,
                 54, 122, 88, 220, 106, 174, 194, 164, 72, 96, 66, 208, 160, 101, 217, 52, 11, 204, 251, 208, 88, 44, 75, 121,
                 112, 138, 247, 197, 140, 203, 240, 115, 227, 95, 29, 158, 162, 86, 151, 40, 37, 213, 155, 5, 240, 128, 128, 128,
                 128, 128, 128, 128, 128, 128, 128, 128, 128, 128, 128 >>
              :> << 183, 214, 224, 159, 213, 141, 208, 224, 38, 232, 3, 210, 244, 70, 255, 221, 241, 25, 123, 223, 15, 157, 46, 66,
                    155, 85, 202, 57, 63, 238, 254, 231 >>)
             @@
             (
              (<< 248, 81, 128, 160, 110, 20, 40, 238, 143, 128, 161, 48, 58, 182, 18, 178, 137, 253, 43, 150, 192, 237, 23, 37,
                  54, 122, 88, 220, 106, 174, 194, 164, 72, 96, 66, 208, 160, 110, 20, 40, 238, 143, 128, 161, 48, 58, 182, 18,
                  178, 137, 253, 43, 150, 192, 237, 23, 37, 54, 122, 88, 220, 106, 174, 194, 164, 72, 96, 66, 208, 128, 128, 128,
                  128, 128, 128, 128, 128, 128, 128, 128, 128, 128, 128 >>
               :> << 217, 110, 136, 147, 9, 99, 240, 197, 90, 108, 97, 20, 95, 78, 92, 20, 199, 73, 127, 212, 160, 12, 134, 141,
                     220, 161, 164, 235, 56, 185, 179, 49 >>)
              @@
              (<< 248, 81, 128, 160, 110, 20, 40, 238, 143, 128, 161, 48, 58, 182, 18, 178, 137, 253, 43, 150, 192, 237, 23, 37,
                  54, 122, 88, 220, 106, 174, 194, 164, 72, 96, 66, 208, 160, 124, 230, 218, 79, 193, 196, 115, 34, 73, 20, 80,
                  30, 94, 62, 200, 140, 48, 26, 126, 108, 98, 57, 81, 24, 129, 196, 28, 255, 208, 123, 197, 74, 128, 128, 128,
                  128, 128, 128, 128, 128, 128, 128, 128, 128, 128, 128 >>
               :> << 189, 42, 121, 1, 28, 18, 6, 66, 72, 145, 130, 71, 216, 3, 115, 178, 100, 8, 17, 196, 178, 40, 91, 142,
                     17, 82, 153, 220, 26, 226, 32, 25 >>)
             )
            )
           )
           @@
           (
            (
             (<< 248, 81, 128, 160, 110, 20, 40, 238, 143, 128, 161, 48, 58, 182, 18, 178, 137, 253, 43, 150, 192, 237, 23, 37,
                 54, 122, 88, 220, 106, 174, 194, 164, 72, 96, 66, 208, 160, 133, 91, 225, 140, 224, 190, 115, 161, 244, 36, 216,
                 39, 113, 18, 199, 76, 17, 0, 183, 62, 123, 60, 41, 253, 46, 190, 54, 18, 35, 66, 204, 74, 128, 128, 128,
                 128, 128, 128, 128, 128, 128, 128, 128, 128, 128, 128 >>
              :> << 213, 38, 131, 225, 142, 91, 76, 192, 226, 210, 242, 20, 253, 71, 249, 94, 76, 73, 40, 60, 146, 166, 90, 88,
                    207, 31, 4, 235, 9, 45, 154, 237 >>)
             @@
             (<< 248, 81, 128, 160, 110, 20, 40, 238, 143, 128, 161, 48, 58, 182, 18, 178, 137, 253, 43, 150, 192, 237, 23, 37,
                 54, 122, 88, 220, 106, 174, 194, 164, 72, 96, 66, 208, 160, 160, 55, 87, 191, 65, 234, 3, 59, 73, 239, 113,
                 134, 143, 229, 234, 122, 152, 215, 191, 44, 162, 226, 64, 178, 168, 152, 185, 85, 223, 146, 16, 123, 128, 128, 128,
                 128, 128, 128, 128, 128, 128, 128, 128, 128, 128, 7 >>
              :> << 200, 186, 60, 80, 129, 83, 216, 128, 89, 125, 131, 149, 254, 115, 215, 95, 37, 105, 125, 203, 138, 12, 54, 175,
                    239, 41, 211, 230, 134, 183, 94, 99 >>)
            )
            @@
            (
             (<< 248, 81, 128, 160, 110, 20, 40, 238, 143, 128, 161, 48, 58, 182, 18, 178, 137, 253, 43, 150, 192, 237, 23, 37,
                 54, 122, 88, 220, 106, 174, 194, 164, 72, 96, 66, 208, 160, 160, 55, 87, 191, 65, 234, 3, 59, 73, 239, 113,
                 134, 143, 229, 234, 122, 152, 215, 191, 44, 162, 226, 64, 178, 168, 152, 185, 85, 223, 146, 16, 123, 128, 128, 128,
                 128, 128, 128, 128, 128, 128, 128, 128, 128, 128, 128 >>
              :> << 175, 37, 55, 43, 43, 15, 234, 89, 252, 11, 252, 125, 177, 128, 114, 53, 19, 188, 234, 113, 173, 97, 27, 216,
                    3, 85, 149, 155, 154, 233, 122, 82 >>)
             @@
             (
              (<< 248, 81, 128, 160, 110, 20, 40, 238, 143, 128, 161, 48, 58, 182, 18, 178, 137, 253, 43, 150, 192, 237, 23, 37,
                  54, 122, 88, 220, 106, 174, 194, 164, 72, 96, 66, 208, 160, 180, 100, 126, 157, 63, 75, 21, 76, 59, 83, 175,
                  134, 99, 94, 12, 109, 25, 197, 203, 70, 3, 2, 97, 234, 177, 185, 135, 218, 84, 201, 53, 236, 128, 128, 128,
                  128, 128, 128, 128, 128, 128, 128, 128, 128, 128, 128 >>
               :> << 124, 199, 122, 132, 71, 15, 195, 174, 140, 12, 236, 123, 117, 95, 188, 208, 185, 50, 155, 12, 224, 220, 175, 160,
                     26, 244, 218, 254, 115, 24, 48, 229 >>)
              @@
              (<< 248, 81, 128, 160, 110, 20, 40, 238, 143, 128, 161, 48, 58, 182, 18, 178, 137, 253, 43, 150, 192, 237, 23, 37,
                  54, 122, 88, 220, 106, 174, 194, 164, 72, 96, 66, 208, 160, 211, 102, 187, 17, 52, 83, 109, 168, 35, 25, 170,
                  198, 86, 30, 155, 113, 162, 93, 203, 136, 140, 57, 89, 89, 24, 118, 177, 223, 169, 198, 68, 169, 128, 128, 128,
                  128, 128, 128, 128, 128, 128, 128, 128, 128, 128, 128 >>
               :> << 121, 240, 58, 150, 138, 251, 220, 11, 151, 133, 119, 132, 14, 189, 198, 66, 125, 39, 88, 213, 109, 121, 2, 81,
                     249, 196, 145, 141, 217, 71, 153, 125 >>)
             )
            )
           )
          )
          @@
          (
           (
            (
             (<< 248, 81, 128, 160, 110, 20, 40, 238, 143, 128, 161, 48, 58, 182, 18, 178, 137, 253, 43, 150, 192, 237, 23, 37,
                 54, 122, 88, 220, 106, 174, 194, 164, 72, 96, 66, 208, 160, 219, 234, 87, 12, 189, 96, 101, 213, 252, 102, 211,
                 178, 212, 49, 240, 83, 141, 108, 45, 230, 213, 229, 98, 253, 208, 170, 185, 132, 7, 166, 10, 145, 128, 128, 128,
                 128, 128, 128, 128, 128, 128, 128, 128, 128, 128, 7 >>
              :> << 54, 31, 179, 178, 121, 59, 219, 31, 3, 182, 243, 142, 61, 157, 182, 149, 27, 251, 52, 72, 201, 95, 234, 104,
                    68, 77, 181, 240, 149, 125, 74, 106 >>)
             @@
             (<< 248, 81, 128, 160, 110, 20, 40, 238, 143, 128, 161, 48, 58, 182, 18, 178, 137, 253, 43, 150, 192, 237, 23, 37,
                 54, 122, 88, 220, 106, 174, 194, 164, 72, 96, 66, 208, 160, 219, 234, 87, 12, 189, 96, 101, 213, 252, 102, 211,
                 178, 212, 49, 240, 83, 141, 108, 45, 230, 213, 229, 98, 253, 208, 170, 185, 132, 7, 166, 10, 145, 128, 128, 128,
                 128, 128, 128, 128, 128, 128, 128, 128, 128, 128, 128 >>
              :> << 182, 20, 13, 155, 141, 211, 157, 242, 95, 91, 182, 19, 244, 40, 158, 72, 196, 163, 234, 190, 146, 68, 81, 30,
                    153, 205, 132, 218, 19, 118, 208, 78 >>)
            )
            @@
            (
             (<< 248, 81, 128, 160, 110, 20, 40, 238, 143, 128, 161, 48, 58, 182, 18, 178, 137, 253, 43, 150, 192, 237, 23, 37,
                 54, 122, 88, 220, 106, 174, 194, 164, 72, 96, 66, 208, 160, 237, 204, 219, 228, 55, 207, 164, 155, 250, 77, 24,
                 111, 217, 28, 160, 37, 123, 146, 10, 236, 6, 23, 173, 202, 14, 152, 134, 108, 215, 209, 151, 213, 128, 128, 128,
                 128, 128, 128, 128, 128, 128, 128, 128, 128, 128, 128 >>
              :> << 104, 104, 127, 242, 174, 212, 120, 211, 207, 176, 183, 197, 43, 201, 55, 116, 231, 80, 57, 67, 190, 254, 89, 180,
                    79, 226, 230, 124, 115, 117, 134, 121 >>)
             @@
             (
              (<< 248, 81, 128, 160, 110, 20, 40, 238, 143, 128, 161, 48, 58, 182, 18, 178, 137, 253, 43, 150, 192, 237, 23, 37,
                  54, 122, 88, 220, 106, 174, 194, 164, 72, 96, 66, 208, 160, 249, 190, 130, 143, 214, 117, 37, 60, 46, 62, 205,
                  255, 67, 121, 222, 186, 180, 89, 243, 118, 183, 85, 79, 172, 25, 55, 71, 198, 118, 241, 15, 10, 128, 128, 128,
                  128, 128, 128, 128, 128, 128, 128, 128, 128, 128, 128 >>
               :> << 200, 118, 48, 162, 186, 59, 47, 71, 104, 244, 165, 84, 108, 27, 15, 45, 89, 133, 208, 141, 78, 141, 126, 73,
                     191, 16, 48, 216, 32, 120, 183, 203 >>)
              @@
              (<< 248, 81, 128, 160, 120, 98, 80, 193, 117, 5, 1, 44, 46, 155, 56, 84, 185, 203, 159, 51, 236, 182, 32, 36,
                  191, 251, 137, 58, 0, 165, 215, 6, 128, 242, 6, 88, 128, 128, 128, 128, 128, 128, 128, 128, 128, 128, 128, 128,
                  128, 128, 160, 170, 170, 170, 170, 170, 170, 170, 170, 170, 170, 170, 170, 170, 170, 170, 170, 170, 170, 170, 170, 170,
                  170, 170, 170, 170, 170, 170, 170, 170, 170, 170, 170 >>
               :> << 23, 145, 137, 21, 224, 95, 194, 104, 175, 188, 153, 66, 108, 200, 236, 242, 234, 48, 129, 210, 171, 137, 133, 37,
                     182, 224, 155, 130, 237, 190, 97, 152 >>)
             )
            )
           )
           @@
           (
            (
             (<< 248, 81, 128, 160, 120, 140, 254, 208, 112, 133, 80, 24, 104, 207, 66, 26, 163, 219, 232, 72, 229, 17, 85, 124,
                 48, 174, 55, 242, 75, 81, 44, 245, 137, 254, 187, 65, 128, 128, 128, 128, 128, 128, 128, 128, 128, 128, 128, 128,
                 128, 128, 160, 170, 170, 170, 170, 170, 170, 170, 170, 170, 170, 170, 170, 170, 170, 170, 170, 170, 170, 170, 170, 170,
                 170, 170, 170, 170, 170, 170, 170, 170, 170, 170, 170 >>
              :> << 201, 218, 118, 81, 66, 66, 48, 252, 168, 59, 157, 29, 3, 241, 115, 68, 40, 104, 100, 14, 50, 39, 115, 14,
                    220, 233, 164, 138, 176, 164, 169, 231 >>)
             @@
             (<< 248, 81, 128, 160, 121, 124, 107, 41, 28, 38, 158, 50, 23, 21, 102, 151, 169, 130, 35, 81, 111, 128, 26, 154,
                 40, 153, 53, 31, 139, 203, 208, 144, 18, 82, 72, 118, 128, 128, 128, 128, 128, 128, 128, 128, 128, 128, 128, 128,
                 128, 128, 160, 170, 170, 170, 170, 170, 170, 170, 170, 170, 170, 170, 170, 170, 170, 170, 170, 170, 170, 170, 170, 170,
                 170, 170, 170, 170, 170, 170, 170, 170, 170, 170, 170 >>
              :> << 189, 128, 182, 111, 135, 205, 90, 246, 108, 232, 162, 188, 206, 218, 80, 2, 62, 152, 218, 102, 4, 43, 25, 106,
                    3, 66, 105, 109, 199, 83, 54, 208 >>)
            )
            @@
            (
             (<< 248, 81, 128, 160, 121, 124, 107, 41, 28, 38, 158, 50, 23, 21, 102, 151, 169, 130, 35, 81, 111, 128, 26, 154,
                 40, 153, 53, 31, 139, 203, 208, 144, 18, 82, 72, 118, 160, 237, 204, 219, 228, 55, 207, 164, 155, 250, 77, 24,
                 111, 217, 28, 160, 37, 123, 146, 10, 236, 6, 23, 173, 202, 14, 152, 134, 108, 215, 209, 151, 213, 128, 128, 128,
                 128, 128, 128, 128, 128, 128, 128, 128, 128, 128, 128 >>
              :> << 221, 101, 33, 65, 105, 223, 231, 128, 199, 7, 62, 136, 179, 19, 50, 248, 238, 119, 213, 93, 75, 237, 164, 253,
                    188, 127, 202, 96, 165, 130, 199, 204 >>)
             @@
             (
              (<< 248, 81, 128, 160, 121, 124, 107, 41, 28, 38, 158, 50, 23, 21, 102, 151, 169, 130, 35, 81, 111, 128, 26, 154,
                  40, 153, 53, 31, 139, 203, 208, 144, 18, 82, 72, 118, 160, 249, 190, 130, 143, 214, 117, 37, 60, 46, 62, 205,
                  255, 67, 121, 222, 186, 180, 89, 243, 118, 183, 85, 79, 172, 25, 55, 71, 198, 118, 241, 15, 10, 128, 128, 128,
                  128, 128, 128, 128, 128, 128, 128, 128, 128, 128, 128 >>
               :> << 120, 98, 80, 193, 117, 5, 1, 44, 46, 155, 56, 84, 185, 203, 159, 51, 236, 182, 32, 36, 191, 251, 137, 58,
                     0, 165, 215, 6, 128, 242, 6, 88 >>)
              @@
              (<< 248, 81, 128, 160, 130, 33, 177, 41, 143, 150, 32, 247, 159, 237, 239, 78, 25, 213, 167, 210, 205, 191, 34, 249,
                  214, 50, 112, 39, 83, 90, 165, 46, 162, 154, 20, 237, 160, 173, 100, 227, 164, 177, 4, 232, 227, 128, 186, 221,
                  104, 149, 36, 101, 82, 15, 240, 187, 119, 79, 48, 97, 250, 117, 5, 95, 195, 56, 254, 212, 94, 128, 128, 128,
                  128, 128, 128, 128, 128, 128, 128, 128, 128, 128, 128 >>
               :> << 100, 223, 204, 149, 226, 89, 100, 133, 162, 188, 173, 174, 6, 169, 8, 217, 184, 66, 45, 231, 83, 191, 4, 236,
                     58, 136, 251, 12, 158, 13, 36, 229 >>)
             )
            )
           )
          )
         )
         @@
         (
          (
           (
            (
             (<< 248, 81, 128, 160, 133, 82, 84, 216, 5, 105, 31, 91, 103, 32, 52, 31, 98, 222, 136, 31, 22, 32, 54, 158,
                 200, 181, 118, 5, 146, 141, 10, 63, 222, 248, 188, 86, 128, 128, 128, 128, 128, 128, 128, 128, 128, 128, 128, 128,
                 128, 128, 160, 170, 170, 170, 170, 170, 170, 170, 170, 170, 170, 170, 170, 170, 170, 170, 170, 170, 170, 170, 170, 170,
                 170, 170, 170, 170, 170, 170, 170, 170, 170, 170, 170 >>
              :> << 219, 234, 87, 12, 189, 96, 101, 213, 252, 102, 211, 178, 212, 49, 240, 83, 141, 108, 45, 230, 213, 229, 98, 253,
                    208, 170, 185, 132, 7, 166, 10, 145 >>)
             @@
             (<< 248, 81, 128, 160, 133, 91, 225, 140, 224, 190, 115, 161, 244, 36, 216, 39, 113, 18, 199, 76, 17, 0, 183, 62,
                 123, 60, 41, 253, 46, 190, 54, 18, 35, 66, 204, 74, 160, 15, 210, 121, 87, 19, 39, 9, 66, 180, 2, 58,
                 251, 48, 178, 87, 132, 197, 136, 32, 191, 237, 14, 224, 49, 250, 1, 163, 166, 100, 35, 60, 19, 128, 128, 128,
                 128, 128, 128, 128, 128, 128, 128, 128, 128, 128, 7 >>
              :> << 148, 59, 53, 205, 184, 214, 104, 238, 79, 93, 74, 16, 13, 184, 211, 96, 45, 190, 47, 236, 129, 86, 155, 28,
                    140, 246, 10, 229, 63, 111, 3, 227 >>)
            )
            @@
            (
             (<< 248, 81, 128, 160, 133, 91, 225, 140, 224, 190, 115, 161, 244, 36, 216, 39, 113, 18, 199, 76, 17, 0, 183, 62,
                 123, 60, 41, 253, 46, 190, 54, 18, 35, 66, 204, 74, 160, 15, 210, 121, 87, 19, 39, 9, 66, 180, 2, 58,
                 251, 48, 178, 87, 132, 197, 136, 32, 191, 237, 14, 224, 49, 250, 1, 163, 166, 100, 35, 60, 19, 128, 128, 128,
                 128, 128, 128, 128, 128, 128, 128, 128, 128, 128, 128 >>
              :> << 146, 11, 150, 80, 41, 239, 166, 74, 101, 136, 106, 69, 251, 99, 147, 21, 233, 108, 228, 35, 237, 50, 54, 87,
                    11, 214, 197, 27, 12, 76, 158, 65 >>)
             @@
             (
              (<< 248, 81, 128, 160, 133, 91, 225, 140, 224, 190, 115, 161, 244, 36, 216, 39, 113, 18, 199, 76, 17, 0, 183, 62,
                  123, 60, 41, 253, 46, 190, 54, 18, 35, 66, 204, 74, 160, 101, 217, 52, 11, 204, 251, 208, 88, 44, 75, 121,
                  112, 138, 247, 197, 140, 203, 240, 115, 227, 95, 29, 158, 162, 86, 151, 40, 37, 213, 155, 5, 240, 128, 128, 128,
                  128, 128, 128, 128, 128, 128, 128, 128, 128, 128, 7 >>
               :> << 155, 230, 51, 190, 70, 211, 168, 49, 206, 199, 72, 131, 135, 9, 94, 68, 247, 141, 193, 62, 200, 217, 106, 200,
                     248, 64, 219, 255, 135, 213, 112, 180 >>)
              @@
              (<< 248, 81, 128, 160, 133, 91, 225, 140, 224, 190, 115, 161, 244, 36, 216, 39, 113, 18, 199, 76, 17, 0, 183, 62,
                  123, 60, 41, 253, 46, 190, 54, 18, 35, 66, 204, 74, 160, 101, 217, 52, 11, 204, 251, 208, 88, 44, 75, 121,
                  112, 138, 247, 197, 140, 203, 240, 115, 227, 95, 29, 158, 162, 86, 151, 40, 37, 213, 155, 5, 240, 128, 128, 128,
                  128, 128, 128, 128, 128, 128, 128, 128, 128, 128, 128 >>
               :> << 194, 157, 84, 126, 203, 34, 65, 135, 0, 79, 123, 23, 98, 18, 164, 217, 24, 225, 141, 112, 208, 31, 40, 226,
                     128, 184, 233, 66, 84, 237, 124, 58 >>)
             )
            )
           )
           @@
           (
            (
             (<< 248, 81, 128, 160, 133, 91, 225, 140, 224, 190, 115, 161, 244, 36, 216, 39, 113, 18, 199, 76, 17, 0, 183, 62,
                 123, 60, 41, 253, 46, 190, 54, 18, 35, 66, 204, 74, 160, 110, 20, 40, 238, 143, 128, 161, 48, 58, 182, 18,
                 178, 137, 253, 43, 150, 192, 237, 23, 37, 54, 122, 88, 220, 106, 174, 194, 164, 72, 96, 66, 208, 128, 128, 128,
                 128, 128, 128, 128, 128, 128, 128, 128, 128, 128, 128 >>
              :> << 224, 83, 56, 125, 169, 77, 9, 57, 226, 96, 12, 123, 230, 132, 107, 246, 196, 122, 182, 252, 163, 159, 142, 130,
                    28, 103, 105, 171, 88, 246, 122, 178 >>)
             @@
             (<< 248, 81, 128, 160, 133, 91, 225, 140, 224, 190, 115, 161, 244, 36, 216, 39, 113, 18, 199, 76, 17, 0, 183, 62,
                 123, 60, 41, 253, 46, 190, 54, 18, 35, 66, 204, 74, 160, 133, 91, 225, 140, 224, 190, 115, 161, 244, 36, 216,
                 39, 113, 18, 199, 76, 17, 0, 183, 62, 123, 60, 41, 253, 46, 190, 54, 18, 35, 66, 204, 74, 128, 128, 128,
                 128, 128, 128, 128, 128, 128, 128, 128, 128, 128, 128 >>
              :> << 25, 39, 2, 110, 88, 115, 121, 16, 228, 101, 56, 242, 53, 180, 211, 117, 103, 57, 134, 191, 73, 179, 56, 190,
                    86, 238, 48, 213, 61, 27, 53, 49 >>)
            )
            @@
            (
             (<< 248, 81, 128, 160, 133, 91, 225, 140, 224, 190, 115, 161, 244, 36, 216, 39, 113, 18, 199, 76, 17, 0, 183, 62,
                 123, 60, 41, 253, 46, 190, 54, 18, 35, 66, 204, 74, 160, 160, 55, 87, 191, 65, 234, 3, 59, 73, 239, 113,
                 134, 143, 229, 234, 122, 152, 215, 191, 44, 162, 226, 64, 178, 168, 152, 185, 85, 223, 146, 16, 123, 128, 128, 128,
                 128, 128, 128, 128, 128, 128, 128, 128, 128, 128, 7 >>
              :> << 47, 200, 109, 51, 111, 189, 236, 237, 152, 237, 113, 181, 20, 116, 53, 36, 63, 53, 235, 48, 178, 223, 65, 209,
                    248, 56, 69, 74, 171, 176, 132, 50 >>)
             @@
             (
              (<< 248, 81, 128, 160, 133, 91, 225, 140, 224, 190, 115, 161, 244, 36, 216, 39, 113, 18, 199, 76, 17, 0, 183, 62,
                  123, 60, 41, 253, 46, 190, 54, 18, 35, 66, 204, 74, 160, 160, 55, 87, 191, 65, 234, 3, 59, 73, 239, 113,
                  134, 143, 229, 234, 122, 152, 215, 191, 44, 162, 226, 64, 178, 168, 152, 185, 85, 223, 146, 16, 123, 128, 128, 128,
                  128, 128, 128, 128, 128, 128, 128, 128, 128, 128, 128 >>
               :> << 178, 130, 174, 21, 189, 157, 178, 224, 198, 228, 68, 155, 208, 98, 243, 228, 58, 111, 145, 209, 147, 222, 1, 103,
                     221, 180, 12, 186, 252, 27, 198, 253 >>)
              @@
              (<< 248, 81, 128, 160, 133, 91, 225, 140, 224, 190, 115, 161, 244, 36, 216, 39, 113, 18, 199, 76, 17, 0, 183, 62,
                  123, 60, 41, 253, 46, 190, 54, 18, 35, 66, 204, 74, 160, 211, 102, 187, 17, 52, 83, 109, 168, 35, 25, 170,
                  198, 86, 30, 155, 113, 162, 93, 203, 136, 140, 57, 89, 89, 24, 118, 177, 223, 169, 198, 68, 169, 128, 128, 128,
                  128, 128, 128, 128, 128, 128, 128, 128, 128, 128, 128 >>
               :> << 0, 34, 134, 226, 133, 54, 29, 205, 106, 75, 190, 42, 228, 254, 91, 77, 4, 125, 26, 248, 50, 68, 59, 208,
                     212, 179, 174, 131, 73, 167, 55, 76 >>)
             )
            )
           )
          )
          @@
          (
           (
            (
             (<< 248, 81, 128, 160, 133, 91, 225, 140, 224, 190, 115, 161, 244, 36, 216, 39, 113, 18, 199, 76, 17, 0, 183, 62,
                 123, 60, 41, 253, 46, 190, 54, 18, 35, 66, 204, 74, 160, 219, 234, 87, 12, 189, 96, 101, 213, 252, 102, 211,
                 178, 212, 49, 240, 83, 141, 108, 45, 230, 213, 229, 98, 253, 208, 170, 185, 132, 7, 166, 10, 145, 128, 128, 128,
                 128, 128, 128, 128, 128, 128, 128, 128, 128, 128, 7 >>
              :> << 177, 66, 49, 53, 152, 159, 195, 60, 236, 25, 20, 2, 89, 52, 149, 120, 83, 171, 128, 172, 115, 250, 199, 88,
                    35, 204, 48, 254, 150, 1, 118, 54 >>)
             @@
             (<< 248, 81, 128, 160, 133, 91, 225, 140, 224, 190, 115, 161, 244, 36, 216, 39, 113, 18, 199, 76, 17, 0, 183, 62,
                 123, 60, 41, 253, 46, 190, 54, 18, 35, 66, 204, 74, 160, 219, 234, 87, 12, 189, 96, 101, 213, 252, 102, 211,
                 178, 212, 49, 240, 83, 141, 108, 45, 230, 213, 229, 98, 253, 208, 170, 185, 132, 7, 166, 10, 145, 128, 128, 128,
                 128, 128, 128, 128, 128, 128, 128, 128, 128, 128, 128 >>
              :> << 100, 102, 35, 40, 92, 110, 103, 7, 234, 150, 64, 45, 85, 105, 82, 44, 178, 138, 27, 218, 149, 209, 127, 21,
                    90, 234, 137, 134, 61, 86, 185, 78 >>)
            )
            @@
            (
             (<< 248, 81, 128, 160, 133, 91, 225, 140, 224, 190, 115, 161, 244, 36, 216, 39, 113, 18, 199, 76, 17, 0, 183, 62,
                 123, 60, 41, 253, 46, 190, 54, 18, 35, 66, 204, 74, 160, 237, 204, 219, 228, 55, 207, 164, 155, 250, 77, 24,
                 111, 217, 28, 160, 37, 123, 146, 10, 236, 6, 23, 173, 202, 14, 152, 134, 108, 215, 209, 151, 213, 128, 128, 128,
                 128, 128, 128, 128, 128, 128, 128, 128, 128, 128, 128 >>
              :> << 179, 128, 247, 204, 92, 58, 234, 11, 94, 46, 68, 106, 138, 165, 23, 146, 221, 10, 73, 90, 145, 235, 29, 111,
                    170, 87, 188, 244, 115, 8, 135, 43 >>)
             @@
             (
              (<< 248, 81, 128, 160, 133, 214, 72, 207, 39, 33, 22, 213, 201, 101, 4, 154, 119, 186, 198, 75, 207, 129, 120, 237,
                  125, 190, 227, 183, 51, 219, 44, 155, 145, 124, 73, 29, 160, 133, 91, 225, 140, 224, 190, 115, 161, 244, 36, 216,
                  39, 113, 18, 199, 76, 17, 0, 183, 62, 123, 60, 41, 253, 46, 190, 54, 18, 35, 66, 204, 74, 128, 128, 128,
                  128, 128, 128, 128, 128, 128, 128, 128, 128, 128, 128 >>
               :> << 154, 21, 37, 95, 114, 116, 82, 18, 91, 254, 89, 245, 196, 153, 110, 28, 235, 44, 0, 62, 2, 245, 78, 63,
                     120, 214, 65, 194, 156, 39, 76, 146 >>)
              @@
              (<< 248, 81, 128, 160, 136, 58, 237, 11, 149, 17, 240, 222, 32, 228, 111, 46, 3, 168, 105, 233, 138, 64, 228, 140,
                  206, 254, 78, 217, 164, 212, 89, 247, 93, 114, 103, 35, 160, 136, 58, 237, 11, 149, 17, 240, 222, 32, 228, 111,
                  46, 3, 168, 105, 233, 138, 64, 228, 140, 206, 254, 78, 217, 164, 212, 89, 247, 93, 114, 103, 35, 128, 128, 128,
                  128, 128, 128, 128, 128, 128, 128, 128, 128, 128, 7 >>
               :> << 43, 57, 243, 11, 43, 164, 100, 223, 143, 51, 172, 195, 167, 220, 194, 217, 203, 243, 216, 127, 70, 74, 236, 188,
                     163, 235, 129, 33, 116, 128, 27, 219 >>)
             )
            )
           )
           @@
           (
            (
             (<< 248, 81, 128, 160, 136, 58, 237, 11, 149, 17, 240, 222, 32, 228, 111, 46, 3, 168, 105, 233, 138, 64, 228, 140,
                 206, 254, 78, 217, 164, 212, 89, 247, 93, 114, 103, 35, 160, 136, 58, 237, 11, 149, 17, 240, 222, 32, 228, 111,
                 46, 3, 168, 105, 233, 138, 64, 228, 140, 206, 254, 78, 217, 164, 212, 89, 247, 93, 114, 103, 35, 128, 128, 128,
                 128, 128, 128, 128, 128, 128, 128, 128, 128, 128, 128 >>
              :> << 253, 216, 111, 167, 252, 248, 247, 213, 59, 155, 131, 100, 243, 8, 69, 156, 110, 52, 81, 248, 235, 146, 201, 160,
                    195, 16, 158, 154, 176, 208, 247, 35 >>)
             @@
             (<< 248, 81, 128, 160, 136, 58, 237, 11, 149, 17, 240, 222, 32, 228, 111, 46, 3, 168, 105, 233, 138, 64, 228, 140,
                 206, 254, 78, 217, 164, 212, 89, 247, 93, 114, 103, 35, 160, 190, 205, 104, 120, 92, 221, 156, 214, 11, 68, 133,
                 149, 172, 204, 40, 16, 12, 119, 248, 181, 61, 201, 4, 126, 179, 246, 230, 76, 125, 128, 177, 221, 128, 128, 128,
                 128, 128, 128, 128, 128, 128, 128, 128, 128, 128, 7 >>
              :> << 195, 204, 106, 113, 158, 70, 146, 120, 117, 180, 244, 150, 245, 28, 188, 14, 114, 243, 144, 109, 115, 73, 35, 190,
                    226, 175, 138, 197, 99, 221, 55, 242 >>)
            )
            @@
            (
             (<< 248, 81, 128, 160, 136, 58, 237, 11, 149, 17, 240, 222, 32, 228, 111, 46, 3, 168, 105, 233, 138, 64, 228, 140,
                 206, 254, 78, 217, 164, 212, 89, 247, 93, 114, 103, 35, 160, 190, 205, 104, 120, 92, 221, 156, 214, 11, 68, 133,
                 149, 172, 204, 40, 16, 12, 119, 248, 181, 61, 201, 4, 126, 179, 246, 230, 76, 125, 128, 177, 221, 128, 128, 128,
                 128, 128, 128, 128, 128, 128, 128, 128, 128, 128, 128 >>
              :> << 29, 108, 151, 254, 248, 148, 118, 245, 32, 64, 117, 192, 211, 210, 122, 37, 120, 72, 205, 219, 154, 90, 3, 195,
                    221, 46, 95, 237, 74, 78, 254, 96 >>)
             @@
             (
              (<< 248, 81, 128, 160, 136, 66, 181, 102, 161, 165, 181, 51, 203, 128, 65, 206, 21, 234, 187, 127, 86, 87, 66, 1,
                  144, 24, 251, 92, 232, 154, 229, 97, 72, 199, 81, 84, 160, 133, 91, 225, 140, 224, 190, 115, 161, 244, 36, 216,
                  39, 113, 18, 199, 76, 17, 0, 183, 62, 123, 60, 41, 253, 46, 190, 54, 18, 35, 66, 204, 74, 128, 128, 128,
                  128, 128, 128, 128, 128, 128, 128, 128, 128, 128, 128 >>
               :> << 104, 29, 79, 180, 230, 21, 220, 34, 109, 205, 95, 116, 131, 172, 87, 116, 254, 11, 91, 125, 185, 174, 142, 11,
                     151, 105, 255, 78, 164, 161, 216, 54 >>)
              @@
              (<< 248, 81, 128, 160, 136, 249, 180, 218, 37, 94, 62, 145, 141, 125, 123, 177, 163, 177, 16, 211, 181, 24, 141, 116,
                  25, 251, 68, 73, 39, 141, 142, 23, 152, 65, 159, 82, 128, 128, 128, 128, 128, 128, 128, 128, 128, 128, 128, 128,
                  128, 128, 160, 170, 170, 170, 170, 170, 170, 170, 170, 170, 170, 170, 170, 170, 170, 170, 170, 170, 170, 170, 170, 170,
                  170, 170, 170, 170, 170, 170, 170, 170, 170, 170, 170 >>
               :> << 241, 239, 77, 25, 17, 147, 141, 24, 30, 234, 13, 113, 97, 228, 70, 96, 191, 81, 195, 58, 145, 148, 26, 139,
                     87, 154, 109, 55, 228, 120, 240, 243 >>)
             )
            )
           )
          )
         )
        )
       )
      )
      @@
      (
       (
        (
         (
          (
           (
            (
             (<< 248, 81, 128, 160, 136, 249, 180, 218, 37, 94, 62, 145, 141, 125, 123, 177, 163, 177, 16, 211, 181, 24, 141, 116,
                 25, 251, 68, 73, 39, 141, 142, 23, 152, 65, 159, 82, 160, 237, 204, 219, 228, 55, 207, 164, 155, 250, 77, 24,
                 111, 217, 28, 160, 37, 123, 146, 10, 236, 6, 23, 173, 202, 14, 152, 134, 108, 215, 209, 151, 213, 128, 128, 128,
                 128, 128, 128, 128, 128, 128, 128, 128, 128, 128, 128 >>
              :> << 93, 2, 0, 41, 41, 151, 146, 112, 10, 93, 21, 164, 168, 60, 100, 98, 47, 234, 186, 242, 172, 140, 222, 167,
                    82, 7, 41, 69, 17, 115, 58, 118 >>)
             @@
             (<< 248, 81, 128, 160, 136, 249, 180, 218, 37, 94, 62, 145, 141, 125, 123, 177, 163, 177, 16, 211, 181, 24, 141, 116,
                 25, 251, 68, 73, 39, 141, 142, 23, 152, 65, 159, 82, 160, 249, 190, 130, 143, 214, 117, 37, 60, 46, 62, 205,
                 255, 67, 121, 222, 186, 180, 89, 243, 118, 183, 85, 79, 172, 25, 55, 71, 198, 118, 241, 15, 10, 128, 128, 128,
                 128, 128, 128, 128, 128, 128, 128, 128, 128, 128, 128 >>
              :> << 20, 251, 121, 127, 228, 21, 236, 58, 185, 228, 172, 158, 34, 160, 165, 165, 194, 96, 70, 208, 153, 150, 249, 190,
                    240, 13, 233, 39, 189, 61, 180, 100 >>)
            )
            @@
            (
             (<< 248, 81, 128, 160, 145, 242, 114, 205, 148, 96, 113, 95, 189, 20, 218, 203, 129, 161, 68, 175, 127, 2, 150, 153,
                 165, 77, 184, 181, 199, 98, 53, 108, 183, 4, 45, 52, 128, 128, 128, 128, 128, 128, 128, 128, 128, 128, 128, 128,
                 128, 128, 160, 170, 170, 170, 170, 170, 170, 170, 170, 170, 170, 170, 170, 170, 170, 170, 170, 170, 170, 170, 170, 170,
                 170, 170, 170, 170, 170, 170, 170, 170, 170, 170, 170 >>
              :> << 35, 208, 122, 233, 61, 138, 54, 2, 208, 115, 35, 239, 177, 21, 17, 254, 141, 16, 164, 173, 124, 252, 169, 162,
                    73, 142, 246, 57, 61, 156, 34, 244 >>)
             @@
             (
              (<< 248, 81, 128, 160, 154, 21, 37, 95, 114, 116, 82, 18, 91, 254, 89, 245, 196, 153, 110, 28, 235, 44, 0, 62,
                  2, 245, 78, 63, 120, 214, 65, 194, 156, 39, 76, 146, 160, 173, 100, 227, 164, 177, 4, 232, 227, 128, 186, 221,
                  104, 149, 36, 101, 82, 15, 240, 187, 119, 79, 48, 97, 250, 117, 5, 95, 195, 56, 254, 212, 94, 128, 128, 128,
                  128, 128, 128, 128, 128, 128, 128, 128, 128, 128, 128 >>
               :> << 234, 238, 250, 113, 138, 14, 2, 33, 209, 162, 107, 89, 139, 171, 93, 3, 171, 81, 29, 46, 216, 92, 111, 43,
                     249, 220, 148, 96, 119, 129, 65, 93 >>)
              @@
              (<< 248, 81, 128, 160, 156, 226, 225, 22, 25, 15, 92, 94, 64, 134, 67, 190, 204, 255, 141, 140, 123, 244, 212, 217,
                  173, 164, 63, 0, 143, 175, 38, 213, 126, 194, 158, 42, 128, 128, 128, 128, 128, 128, 128, 128, 128, 128, 128, 128,
                  128, 128, 160, 170, 170, 170, 170, 170, 170, 170, 170, 170, 170, 170, 170, 170, 170, 170, 170, 170, 170, 170, 170, 170,
                  170, 170, 170, 170, 170, 170, 170, 170, 170, 170, 170 >>
               :> << 36, 66, 213, 91, 63, 11, 177, 74, 91, 110, 206, 92, 2, 148, 155, 117, 2, 34, 233, 70, 136, 98, 208, 225,
                     167, 29, 151, 84, 147, 84, 49, 225 >>)
             )
            )
           )
           @@
           (
            (
             (<< 248, 81, 128, 160, 160, 55, 87, 191, 65, 234, 3, 59, 73, 239, 113, 134, 143, 229, 234, 122, 152, 215, 191, 44,
                 162, 226, 64, 178, 168, 152, 185, 85, 223, 146, 16, 123, 128, 128, 128, 128, 128, 128, 128, 128, 128, 128, 128, 128,
                 128, 128, 160, 170, 170, 170, 170, 170, 170, 170, 170, 170, 170, 170, 170, 170, 170, 170, 170, 170, 170, 170, 170, 170,
                 170, 170, 170, 170, 170, 170, 170, 170, 170, 170, 170 >>
              :> << 51, 176, 29, 9, 7, 64, 193, 203, 246, 168, 101, 88, 186, 82, 51, 150, 234, 153, 252, 132, 229, 119, 22, 26,
                    24, 61, 183, 78, 58, 6, 171, 179 >>)
             @@
             (<< 248, 81, 128, 160, 160, 55, 87, 191, 65, 234, 3, 59, 73, 239, 113, 134, 143, 229, 234, 122, 152, 215, 191, 44,
                 162, 226, 64, 178, 168, 152, 185, 85, 223, 146, 16, 123, 160, 15, 210, 121, 87, 19, 39, 9, 66, 180, 2, 58,
                 251, 48, 178, 87, 132, 197, 136, 32, 191, 237, 14, 224, 49, 250, 1, 163, 166, 100, 35, 60, 19, 128, 128, 128,
                 128, 128, 128, 128, 128, 128, 128, 128, 128, 128, 7 >>
              :> << 134, 151, 77, 234, 181, 118, 14, 229, 10, 133, 254, 29, 91, 33, 217, 72, 232, 84, 187, 41, 242, 175, 170, 175,
                    159, 213, 235, 131, 245, 102, 115, 213 >>)
            )
            @@
            (
             (<< 248, 81, 128, 160, 160, 55, 87, 191, 65, 234, 3, 59, 73, 239, 113, 134, 143, 229, 234, 122, 152, 215, 191, 44,
                 162, 226, 64, 178, 168, 152, 185, 85, 223, 146, 16, 123, 160, 15, 210, 121, 87, 19, 39, 9, 66, 180, 2, 58,
                 251, 48, 178, 87, 132, 197, 136, 32, 191, 237, 14, 224, 49, 250, 1, 163, 166, 100, 35, 60, 19, 128, 128, 128,
                 128, 128, 128, 128, 128, 128, 128, 128, 128, 128, 128 >>
              :> << 41, 144, 191, 51, 101, 48, 90, 109, 138, 241, 192, 29, 80, 224, 231, 245, 222, 233, 23, 101, 231, 39, 252, 23,
                    20, 127, 190, 199, 10, 26, 23, 200 >>)
             @@
             (
              (<< 248, 81, 128, 160, 160, 55, 87, 191, 65, 234, 3, 59, 73, 239, 113, 134, 143, 229, 234, 122, 152, 215, 191, 44,
                  162, 226, 64, 178, 168, 152, 185, 85, 223, 146, 16, 123, 160, 88, 229, 152, 11, 171, 205, 76, 6, 151, 0, 132,
                  63, 158, 59, 25, 97, 35, 48, 135, 27, 208, 85, 193, 111, 231, 242, 142, 9, 140, 108, 232, 148, 128, 128, 128,
                  128, 128, 128, 128, 128, 128, 128, 128, 128, 128, 128 >>
               :> << 209, 167, 215, 50, 150, 99, 228, 168, 186, 140, 74, 211, 12, 251, 19, 108, 64, 99, 29, 115, 251, 100, 42, 12,
                     146, 86, 137, 199, 116, 69, 163, 210 >>)
              @@
              (<< 248, 81, 128, 160, 160, 55, 87, 191, 65, 234, 3, 59, 73, 239, 113, 134, 143, 229, 234, 122, 152, 215, 191, 44,
                  162, 226, 64, 178, 168, 152, 185, 85, 223, 146, 16, 123, 160, 98, 73, 234, 54, 131, 64, 1, 163, 57, 155, 97,
                  224, 8, 50, 79, 206, 164, 65, 7, 64, 29, 174, 94, 33, 246, 138, 173, 89, 184, 182, 45, 143, 128, 128, 128,
                  128, 128, 128, 128, 128, 128, 128, 128, 128, 128, 128 >>
               :> << 63, 2, 66, 108, 97, 89, 215, 130, 156, 249, 21, 141, 199, 98, 7, 156, 215, 137, 71, 26, 158, 91, 143, 87,
                     119, 224, 161, 169, 102, 30, 200, 91 >>)
             )
            )
           )
          )
          @@
          (
           (
            (
             (<< 248, 81, 128, 160, 160, 55, 87, 191, 65, 234, 3, 59, 73, 239, 113, 134, 143, 229, 234, 122, 152, 215, 191, 44,
                 162, 226, 64, 178, 168, 152, 185, 85, 223, 146, 16, 123, 160, 101, 217, 52, 11, 204, 251, 208, 88, 44, 75, 121,
                 112, 138, 247, 197, 140, 203, 240, 115, 227, 95, 29, 158, 162, 86, 151, 40, 37, 213, 155, 5, 240, 128, 128, 128,
                 128, 128, 128, 128, 128, 128, 128, 128, 128, 128, 7 >>
              :> << 42, 19, 122, 48, 22, 151, 251, 201, 107, 49, 132, 14, 51, 168, 250, 158, 30, 208, 191, 141, 90, 215, 174, 105,
                    226, 85, 148, 218, 216, 151, 6, 229 >>)
             @@
             (<< 248, 81, 128, 160, 160, 55, 87, 191, 65, 234, 3, 59, 73, 239, 113, 134, 143, 229, 234, 122, 152, 215, 191, 44,
                 162, 226, 64, 178, 168, 152, 185, 85, 223, 146, 16, 123, 160, 101, 217, 52, 11, 204, 251, 208, 88, 44, 75, 121,
                 112, 138, 247, 197, 140, 203, 240, 115, 227, 95, 29, 158, 162, 86, 151, 40, 37, 213, 155, 5, 240, 128, 128, 128,
                 128, 128, 128, 128, 128, 128, 128, 128, 128, 128, 128 >>
              :> << 46, 245, 98, 26, 187, 80, 230, 139, 117, 175, 29, 140, 156, 139, 99, 187, 230, 211, 70, 219, 102, 89, 254, 210,
                    215, 77, 48, 29, 108, 103, 221, 95 >>)
            )
            @@
            (
             (<< 248, 81, 128, 160, 160, 55, 87, 191, 65, 234, 3, 59, 73, 239, 113, 134, 143, 229, 234, 122, 152, 215, 191, 44,
                 162, 226, 64, 178, 168, 152, 185, 85, 223, 146, 16, 123, 160, 110, 20, 40, 238, 143, 128, 161, 48, 58, 182, 18,
                 178, 137, 253, 43, 150, 192, 237, 23, 37, 54, 122, 88, 220, 106, 174, 194, 164, 72, 96, 66, 208, 128, 128, 128,
                 128, 128, 128, 128, 128, 128, 128, 128, 128, 128, 7 >>
              :> << 55, 214, 132, 124, 86, 105, 133, 111, 1, 165, 43, 153, 67, 236, 214, 128, 186, 36, 169, 44, 254, 112, 212, 24,
                    35, 150, 95, 79, 222, 77, 32, 238 >>)
             @@
             (
              (<< 248, 81, 128, 160, 160, 55, 87, 191, 65, 234, 3, 59, 73, 239, 113, 134, 143, 229, 234, 122, 152, 215, 191, 44,
                  162, 226, 64, 178, 168, 152, 185, 85, 223, 146, 16, 123, 160, 110, 20, 40, 238, 143, 128, 161, 48, 58, 182, 18,
                  178, 137, 253, 43, 150, 192, 237, 23, 37, 54, 122, 88, 220, 106, 174, 194, 164, 72, 96, 66, 208, 128, 128, 128,
                  128, 128, 128, 128, 128, 128, 128, 128, 128, 128, 128 >>
               :> << 58, 32, 173, 169, 26, 78, 238, 20, 21, 12, 101, 229, 100, 254, 102, 201, 6, 223, 40, 92, 33, 1, 240, 141,
                     51, 127, 94, 184, 36, 100, 13, 180 >>)
              @@
              (<< 248, 81, 128, 160, 160, 55, 87, 191, 65, 234, 3, 59, 73, 239, 113, 134, 143, 229, 234, 122, 152, 215, 191, 44,
                  162, 226, 64, 178, 168, 152, 185, 85, 223, 146, 16, 123, 160, 124, 230, 218, 79, 193, 196, 115, 34, 73, 20, 80,
                  30, 94, 62, 200, 140, 48, 26, 126, 108, 98, 57, 81, 24, 129, 196, 28, 255, 208, 123, 197, 74, 128, 128, 128,
                  128, 128, 128, 128, 128, 128, 128, 128, 128, 128, 128 >>
               :> << 8, 127, 49, 164, 123, 135, 223, 143, 239, 42, 162, 80, 108, 54, 20, 77, 145, 249, 107, 62, 24, 228, 180, 62,
                     202, 193, 46, 52, 244, 244, 117, 41 >>)
             )
            )
           )
           @@
           (
            (
             (<< 248, 81, 128, 160, 160, 55, 87, 191, 65, 234, 3, 59, 73, 239, 113, 134, 143, 229, 234, 122, 152, 215, 191, 44,
                 162, 226, 64, 178, 168, 152, 185, 85, 223, 146, 16, 123, 160, 133, 91, 225, 140, 224, 190, 115, 161, 244, 36, 216,
                 39, 113, 18, 199, 76, 17, 0, 183, 62, 123, 60, 41, 253, 46, 190, 54, 18, 35, 66, 204, 74, 128, 128, 128,
                 128, 128, 128, 128, 128, 128, 128, 128, 128, 128, 7 >>
              :> << 79, 210, 69, 91, 157, 101, 96, 69, 147, 173, 76, 13, 105, 30, 69, 117, 183, 118, 231, 142, 135, 133, 246, 203,
                    130, 4, 89, 133, 126, 124, 68, 110 >>)
             @@
             (<< 248, 81, 128, 160, 160, 55, 87, 191, 65, 234, 3, 59, 73, 239, 113, 134, 143, 229, 234, 122, 152, 215, 191, 44,
                 162, 226, 64, 178, 168, 152, 185, 85, 223, 146, 16, 123, 160, 133, 91, 225, 140, 224, 190, 115, 161, 244, 36, 216,
                 39, 113, 18, 199, 76, 17, 0, 183, 62, 123, 60, 41, 253, 46, 190, 54, 18, 35, 66, 204, 74, 128, 128, 128,
                 128, 128, 128, 128, 128, 128, 128, 128, 128, 128, 128 >>
              :> << 80, 135, 142, 247, 85, 246, 234, 111, 170, 186, 151, 111, 86, 54, 164, 109, 155, 139, 66, 183, 79, 110, 174, 193,
                    2, 252, 191, 146, 26, 3, 71, 90 >>)
            )
            @@
            (
             (<< 248, 81, 128, 160, 160, 55, 87, 191, 65, 234, 3, 59, 73, 239, 113, 134, 143, 229, 234, 122, 152, 215, 191, 44,
                 162, 226, 64, 178, 168, 152, 185, 85, 223, 146, 16, 123, 160, 160, 55, 87, 191, 65, 234, 3, 59, 73, 239, 113,
                 134, 143, 229, 234, 122, 152, 215, 191, 44, 162, 226, 64, 178, 168, 152, 185, 85, 223, 146, 16, 123, 128, 128, 128,
                 128, 128, 128, 128, 128, 128, 128, 128, 128, 128, 7 >>
              :> << 224, 244, 165, 216, 218, 204, 80, 112, 89, 161, 174, 180, 140, 248, 186, 12, 125, 234, 198, 211, 219, 114, 218, 127,
                    138, 143, 129, 163, 123, 91, 225, 177 >>)
             @@
             (
              (<< 248, 81, 128, 160, 160, 55, 87, 191, 65, 234, 3, 59, 73, 239, 113, 134, 143, 229, 234, 122, 152, 215, 191, 44,
                  162, 226, 64, 178, 168, 152, 185, 85, 223, 146, 16, 123, 160, 160, 55, 87, 191, 65, 234, 3, 59, 73, 239, 113,
                  134, 143, 229, 234, 122, 152, 215, 191, 44, 162, 226, 64, 178, 168, 152, 185, 85, 223, 146, 16, 123, 128, 128, 128,
                  128, 128, 128, 128, 128, 128, 128, 128, 128, 128, 128 >>
               :> << 111, 218, 169, 197, 225, 222, 27, 244, 223, 242, 206, 38, 238, 199, 93, 162, 136, 238, 76, 155, 126, 31, 149, 99,
                     146, 249, 94, 160, 85, 63, 30, 233 >>)
              @@
              (<< 248, 81, 128, 160, 160, 55, 87, 191, 65, 234, 3, 59, 73, 239, 113, 134, 143, 229, 234, 122, 152, 215, 191, 44,
                  162, 226, 64, 178, 168, 152, 185, 85, 223, 146, 16, 123, 160, 180, 100, 126, 157, 63, 75, 21, 76, 59, 83, 175,
                  134, 99, 94, 12, 109, 25, 197, 203, 70, 3, 2, 97, 234, 177, 185, 135, 218, 84, 201, 53, 236, 128, 128, 128,
                  128, 128, 128, 128, 128, 128, 128, 128, 128, 128, 128 >>
               :> << 232, 129, 245, 58, 246, 156, 75, 148, 180, 50, 2, 199, 155, 152, 12, 184, 59, 52, 43, 72, 189, 76, 53, 158,
                     147, 10, 95, 42, 152, 241, 242, 66 >>)
             )
            )
           )
          )
         )
         @@
         (
          (
           (
            (
             (<< 248, 81, 128, 160, 160, 55, 87, 191, 65, 234, 3, 59, 73, 239, 113, 134, 143, 229, 234, 122, 152, 215, 191, 44,
                 162, 226, 64, 178, 168, 152, 185, 85, 223, 146, 16, 123, 160, 211, 102, 187, 17, 52, 83, 109, 168, 35, 25, 170,
                 198, 86, 30, 155, 113, 162, 93, 203, 136, 140, 57, 89, 89, 24, 118, 177, 223, 169, 198, 68, 169, 128, 128, 128,
                 128, 128, 128, 128, 128, 128, 128, 128, 128, 128, 7 >>
              :> << 10, 1, 195, 194, 40, 242, 63, 255, 250, 172, 29, 26, 149, 136, 97, 1, 24, 99, 160, 208, 158, 98, 232, 17,
                    189, 1, 205, 7, 157, 204, 163, 67 >>)
             @@
             (<< 248, 81, 128, 160, 160, 55, 87, 191, 65, 234, 3, 59, 73, 239, 113, 134, 143, 229, 234, 122, 152, 215, 191, 44,
                 162, 226, 64, 178, 168, 152, 185, 85, 223, 146, 16, 123, 160, 211, 102, 187, 17, 52, 83, 109, 168, 35, 25, 170,
                 198, 86, 30, 155, 113, 162, 93, 203, 136, 140, 57, 89, 89, 24, 118, 177, 223, 169, 198, 68, 169, 128, 128, 128,
                 128, 128, 128, 128, 128, 128, 128, 128, 128, 128, 128 >>
              :> << 12, 35, 208, 227, 59, 200, 116, 99, 118, 9, 195, 80, 106, 15, 62, 230, 242, 114, 85, 202, 174, 152, 232, 231,
                    50, 161, 64, 227, 216, 157, 214, 0 >>)
            )
            @@
            (
             (<< 248, 81, 128, 160, 160, 55, 87, 191, 65, 234, 3, 59, 73, 239, 113, 134, 143, 229, 234, 122, 152, 215, 191, 44,
                 162, 226, 64, 178, 168, 152, 185, 85, 223, 146, 16, 123, 160, 219, 234, 87, 12, 189, 96, 101, 213, 252, 102, 211,
                 178, 212, 49, 240, 83, 141, 108, 45, 230, 213, 229, 98, 253, 208, 170, 185, 132, 7, 166, 10, 145, 128, 128, 128,
                 128, 128, 128, 128, 128, 128, 128, 128, 128, 128, 7 >>
              :> << 249, 107, 132, 219, 212, 116, 231, 43, 140, 143, 92, 205, 185, 161, 128, 35, 145, 110, 7, 2, 61, 140, 151, 247,
                    201, 146, 99, 60, 191, 244, 173, 234 >>)
             @@
             (
              (<< 248, 81, 128, 160, 160, 55, 87, 191, 65, 234, 3, 59, 73, 239, 113, 134, 143, 229, 234, 122, 152, 215, 191, 44,
                  162, 226, 64, 178, 168, 152, 185, 85, 223, 146, 16, 123, 160, 219, 234, 87, 12, 189, 96, 101, 213, 252, 102, 211,
                  178, 212, 49, 240, 83, 141, 108, 45, 230, 213, 229, 98, 253, 208, 170, 185, 132, 7, 166, 10, 145, 128, 128, 128,
                  128, 128, 128, 128, 128, 128, 128, 128, 128, 128, 128 >>
               :> << 151, 138, 212, 173, 35, 226, 158, 117, 244, 84, 247, 66, 69, 13, 149, 143, 240, 236, 204, 219, 40, 53, 9, 71,
                     51, 181, 249, 5, 108, 221, 105, 207 >>)
              @@
              (<< 248, 81, 128, 160, 160, 55, 87, 191, 65, 234, 3, 59, 73, 239, 113, 134, 143, 229, 234, 122, 152, 215, 191, 44,
                  162, 226, 64, 178, 168, 152, 185, 85, 223, 146, 16, 123, 160, 237, 204, 219, 228, 55, 207, 164, 155, 250, 77, 24,
                  111, 217, 28, 160, 37, 123, 146, 10, 236, 6, 23, 173, 202, 14, 152, 134, 108, 215, 209, 151, 213, 128, 128, 128,
                  128, 128, 128, 128, 128, 128, 128, 128, 128, 128, 7 >>
               :> << 66, 247, 255, 138, 39, 206, 119, 154, 102, 210, 232, 23, 187, 31, 24, 89, 13, 79, 104, 87, 114, 216, 229, 205,
                     17, 51, 208, 237, 205, 60, 99, 74 >>)
             )
            )
           )
           @@
           (
            (
             (<< 248, 81, 128, 160, 160, 55, 87, 191, 65, 234, 3, 59, 73, 239, 113, 134, 143, 229, 234, 122, 152, 215, 191, 44,
                 162, 226, 64, 178, 168, 152, 185, 85, 223, 146, 16, 123, 160, 237, 204, 219, 228, 55, 207, 164, 155, 250, 77, 24,
                 111, 217, 28, 160, 37, 123, 146, 10, 236, 6, 23, 173, 202, 14, 152, 134, 108, 215, 209, 151, 213, 128, 128, 128,
                 128, 128, 128, 128, 128, 128, 128, 128, 128, 128, 128 >>
              :> << 145, 242, 114, 205, 148, 96, 113, 95, 189, 20, 218, 203, 129, 161, 68, 175, 127, 2, 150, 153, 165, 77, 184, 181,
                    199, 98, 53, 108, 183, 4, 45, 52 >>)
             @@
             (<< 248, 81, 128, 160, 160, 55, 87, 191, 65, 234, 3, 59, 73, 239, 113, 134, 143, 229, 234, 122, 152, 215, 191, 44,
                 162, 226, 64, 178, 168, 152, 185, 85, 223, 146, 16, 123, 160, 249, 190, 130, 143, 214, 117, 37, 60, 46, 62, 205,
                 255, 67, 121, 222, 186, 180, 89, 243, 118, 183, 85, 79, 172, 25, 55, 71, 198, 118, 241, 15, 10, 128, 128, 128,
                 128, 128, 128, 128, 128, 128, 128, 128, 128, 128, 128 >>
              :> << 99, 11, 168, 39, 26, 214, 41, 128, 114, 232, 9, 17, 239, 19, 248, 231, 197, 102, 32, 249, 156, 185, 140, 106,
                    19, 8, 27, 72, 40, 152, 142, 166 >>)
            )
            @@
            (
             (<< 248, 81, 128, 160, 169, 192, 151, 185, 208, 111, 49, 38, 210, 100, 216, 219, 84, 203, 44, 51, 19, 30, 68, 92,
                 240, 211, 19, 144, 111, 229, 54, 11, 193, 158, 120, 18, 128, 128, 128, 128, 128, 128, 128, 128, 128, 128, 128, 128,
                 128, 128, 160, 170, 170, 170, 170, 170, 170, 170, 170, 170, 170, 170, 170, 170, 170, 170, 170, 170, 170, 170, 170, 170,
                 170, 170, 170, 170, 170, 170, 170, 170, 170, 170, 170 >>
              :> << 8, 170, 15, 31, 228, 135, 74, 119, 169, 162, 229, 167, 50, 184, 194, 192, 216, 170, 253, 83, 154, 138, 19, 162,
                    234, 53, 192, 122, 89, 215, 203, 0 >>)
             @@
             (
              (<< 248, 81, 128, 160, 173, 100, 227, 164, 177, 4, 232, 227, 128, 186, 221, 104, 149, 36, 101, 82, 15, 240, 187, 119,
                  79, 48, 97, 250, 117, 5, 95, 195, 56, 254, 212, 94, 160, 173, 100, 227, 164, 177, 4, 232, 227, 128, 186, 221,
                  104, 149, 36, 101, 82, 15, 240, 187, 119, 79, 48, 97, 250, 117, 5, 95, 195, 56, 254, 212, 94, 128, 128, 128,
                  128, 128, 128, 128, 128, 128, 128, 128, 128, 128, 128 >>
               :> << 234, 57, 131, 76, 138, 255, 206, 112, 85, 248, 252, 230, 244, 58, 158, 232, 75, 64, 224, 105, 132, 57, 77, 209,
                     139, 226, 97, 128, 34, 162, 202, 249 >>)
              @@
              (<< 248, 81, 128, 160, 176, 8, 58, 36, 168, 196, 41, 92, 3, 9, 98, 167, 239, 215, 105, 115, 47, 252, 1, 245,
                  14, 41, 60, 55, 205, 151, 99, 249, 185, 118, 198, 61, 128, 128, 128, 128, 128, 128, 128, 128, 128, 128, 128, 128,
                  128, 128, 160, 170, 170, 170, 170, 170, 170, 170, 170, 170, 170, 170, 170, 170, 170, 170, 170, 170, 170, 170, 170, 170,
                  170, 170, 170, 170, 170, 170, 170, 170, 170, 170, 170 >>
               :> << 96, 223, 132, 221, 69, 191, 76, 134, 115, 194, 251, 245, 70, 223, 116, 147, 3, 200, 113, 191, 164, 153, 113, 21,
                     171, 198, 229, 226, 245, 111, 249, 187 >>)
             )
            )
           )
          )
          @@
          (
           (
            (
             (<< 248, 81, 128, 160, 180, 66, 181, 70, 200, 183, 215, 77, 213, 245, 228, 181, 96, 106, 231, 195, 92, 27, 85, 195,
                 98, 28, 74, 206, 66, 147, 14, 216, 223, 239, 145, 121, 128, 128, 128, 128, 128, 128, 128, 128, 128, 128, 128, 128,
                 128, 128, 160, 170, 170, 170, 170, 170, 170, 170, 170, 170, 170, 170, 170, 170, 170, 170, 170, 170, 170, 170, 170, 170,
                 170, 170, 170, 170, 170, 170, 170, 170, 170, 170, 170 >>
              :> << 139, 244, 189, 83, 245, 139, 78, 189, 42, 56, 71, 248, 142, 59, 13, 246, 208, 175, 115, 45, 62, 138, 152, 127,
                    60, 243, 18, 160, 87, 49, 66, 1 >>)
             @@
             (<< 248, 81, 128, 160, 183, 191, 108, 95, 110, 33, 164, 31, 203, 202, 246, 245, 109, 42, 4, 71, 0, 194, 79, 141,
                 253, 249, 149, 108, 221, 199, 193, 70, 178, 147, 139, 229, 128, 128, 128, 128, 128, 128, 128, 128, 128, 128, 128, 128,
                 128, 128, 160, 170, 170, 170, 170, 170, 170, 170, 170, 170, 170, 170, 170, 170, 170, 170, 170, 170, 170, 170, 170, 170,
                 170, 170, 170, 170, 170, 170, 170, 170, 170, 170, 170 >>
              :> << 153, 217, 178, 222, 249, 136, 84, 200, 47, 197, 225, 96, 115, 20, 232, 235, 163, 40, 112, 232, 4, 196, 150, 163,
                    135, 10, 250, 218, 40, 112, 149, 114 >>)
            )
            @@
            (
             (<< 248, 81, 128, 160, 185, 148, 2, 217, 78, 138, 20, 229, 253, 168, 134, 125, 36, 75, 231, 25, 33, 138, 81, 112,
                 124, 82, 87, 144, 68, 0, 190, 164, 25, 180, 197, 143, 128, 128, 128, 128, 128, 128, 128, 128, 128, 128, 128, 128,
                 128, 128, 160, 170, 170, 170, 170, 170, 170, 170, 170, 170, 170, 170, 170, 170, 170, 170, 170, 170, 170, 170, 170, 170,
                 170, 170, 170, 170, 170, 170, 170, 170, 170, 170, 170 >>
              :> << 151, 95, 17, 219, 48, 84, 168, 20, 211, 229, 183, 142, 212, 201, 11, 3, 147, 230, 16, 72, 184, 176, 24, 246,
                    136, 218, 180, 249, 212, 141, 26, 68 >>)
             @@
             (
              (<< 248, 81, 128, 160, 189, 128, 182, 111, 135, 205, 90, 246, 108, 232, 162, 188, 206, 218, 80, 2, 62, 152, 218, 102,
                  4, 43, 25, 106, 3, 66, 105, 109, 199, 83, 54, 208, 128, 128, 128, 128, 128, 128, 128, 128, 128, 128, 128, 128,
                  128, 128, 160, 170, 170, 170, 170, 170, 170, 170, 170, 170, 170, 170, 170, 170, 170, 170, 170, 170, 170, 170, 170, 170,
                  170, 170, 170, 170, 170, 170, 170, 170, 170, 170, 170 >>
               :> << 161, 166, 93, 232, 123, 32, 233, 198, 146, 142, 69, 9, 109, 81, 144, 170, 227, 248, 185, 103, 185, 250, 223, 247,
                     22, 146, 22, 64, 98, 111, 171, 14 >>)
              @@
              (<< 248, 81, 128, 160, 190, 205, 104, 120, 92, 221, 156, 214, 11, 68, 133, 149, 172, 204, 40, 16, 12, 119, 248, 181,
                  61, 201, 4, 126, 179, 246, 230, 76, 125, 128, 177, 221, 160, 136, 58, 237, 11, 149, 17, 240, 222, 32, 228, 111,
                  46, 3, 168, 105, 233, 138, 64, 228, 140, 206, 254, 78, 217, 164, 212, 89, 247, 93, 114, 103, 35, 128, 128, 128,
                  128, 128, 128, 128, 128, 128, 128, 128, 128, 128, 7 >>
               :> << 176, 191, 178, 85, 49, 191, 115, 61, 78, 197, 69, 152, 153, 163, 117, 101, 220, 246, 174, 223, 115, 207, 46, 6,
                     58, 42, 3, 82, 4, 166, 157, 38 >>)
             )
            )
           )
           @@
           (
            (
             (<< 248, 81, 128, 160, 190, 205, 104, 120, 92, 221, 156, 214, 11, 68, 133, 149, 172, 204, 40, 16, 12, 119, 248, 181,
                 61, 201, 4, 126, 179, 246, 230, 76, 125, 128, 177, 221, 160, 136, 58, 237, 11, 149, 17, 240, 222, 32, 228, 111,
                 46, 3, 168, 105, 233, 138, 64, 228, 140, 206, 254, 78, 217, 164, 212, 89, 247, 93, 114, 103, 35, 128, 128, 128,
                 128, 128, 128, 128, 128, 128, 128, 128, 128, 128, 128 >>
              :> << 90, 199, 113, 253, 70, 220, 137, 195, 197, 131, 122, 53, 242, 83, 140, 59, 85, 16, 132, 93, 44, 51, 174, 238,
                    76, 48, 122, 181, 194, 147, 136, 58 >>)
             @@
             (<< 248, 81, 128, 160, 190, 205, 104, 120, 92, 221, 156, 214, 11, 68, 133, 149, 172, 204, 40, 16, 12, 119, 248, 181,
                 61, 201, 4, 126, 179, 246, 230, 76, 125, 128, 177, 221, 160, 190, 205, 104, 120, 92, 221, 156, 214, 11, 68, 133,
                 149, 172, 204, 40, 16, 12, 119, 248, 181, 61, 201, 4, 126, 179, 246, 230, 76, 125, 128, 177, 221, 128, 128, 128,
                 128, 128, 128, 128, 128, 128, 128, 128, 128, 128, 7 >>
              :> << 207, 254, 156, 69, 174, 23, 54, 137, 180, 134, 197, 136, 255, 73, 196, 133, 79, 80, 230, 42, 252, 84, 99, 234,
                    62, 45, 179, 85, 115, 244, 114, 159 >>)
            )
            @@
            (
             (<< 248, 81, 128, 160, 190, 205, 104, 120, 92, 221, 156, 214, 11, 68, 133, 149, 172, 204, 40, 16, 12, 119, 248, 181,
                 61, 201, 4, 126, 179, 246, 230, 76, 125, 128, 177, 221, 160, 190, 205, 104, 120, 92, 221, 156, 214, 11, 68, 133,
                 149, 172, 204, 40, 16, 12, 119, 248, 181, 61, 201, 4, 126, 179, 246, 230, 76, 125, 128, 177, 221, 128, 128, 128,
                 128, 128, 128, 128, 128, 128, 128, 128, 128, 128, 128 >>
              :> << 162, 23, 197, 144, 152, 246, 254, 157, 0, 216, 255, 132, 196, 49, 255, 153, 80, 207, 195, 144, 131, 19, 2, 25,
                    166, 23, 48, 106, 209, 43, 254, 140 >>)
             @@
             (
              (<< 248, 81, 128, 160, 200, 118, 48, 162, 186, 59, 47, 71, 104, 244, 165, 84, 108, 27, 15, 45, 89, 133, 208, 141,
                  78, 141, 126, 73, 191, 16, 48, 216, 32, 120, 183, 203, 128, 128, 128, 128, 128, 128, 128, 128, 128, 128, 128, 128,
                  128, 128, 160, 170, 170, 170, 170, 170, 170, 170, 170, 170, 170, 170, 170, 170, 170, 170, 170, 170, 170, 170, 170, 170,
                  170, 170, 170, 170, 170, 170, 170, 170, 170, 170, 170 >>
               :> << 85, 48, 136, 217, 208, 173, 253, 253, 193, 41, 93, 139, 158, 168, 133, 155, 121, 113, 140, 168, 188, 82, 203, 189,
                     134, 241, 160, 100, 80, 49, 239, 172 >>)
              @@
              (<< 248, 81, 128, 160, 211, 102, 187, 17, 52, 83, 109, 168, 35, 25, 170, 198, 86, 30, 155, 113, 162, 93, 203, 136,
                  140, 57, 89, 89, 24, 118, 177, 223, 169, 198, 68, 169, 160, 15, 210, 121, 87, 19, 39, 9, 66, 180, 2, 58,
                  251, 48, 178, 87, 132, 197, 136, 32, 191, 237, 14, 224, 49, 250, 1, 163, 166, 100, 35, 60, 19, 128, 128, 128,
                  128, 128, 128, 128, 128, 128, 128, 128, 128, 128, 7 >>
               :> << 73, 47, 76, 190, 113, 71, 228, 117, 2, 51, 71, 125, 96, 119, 172, 24, 235, 191, 79, 96, 240, 102, 131, 88,
                     214, 192, 134, 114, 116, 80, 57, 78 >>)
             )
            )
           )
          )
         )
        )
        @@
        (
         (
          (
           (
            (
             (<< 248, 81, 128, 160, 211, 102, 187, 17, 52, 83, 109, 168, 35, 25, 170, 198, 86, 30, 155, 113, 162, 93, 203, 136,
                 140, 57, 89, 89, 24, 118, 177, 223, 169, 198, 68, 169, 160, 15, 210, 121, 87, 19, 39, 9, 66, 180, 2, 58,
                 251, 48, 178, 87, 132, 197, 136, 32, 191, 237, 14, 224, 49, 250, 1, 163, 166, 100, 35, 60, 19, 128, 128, 128,
                 128, 128, 128, 128, 128, 128, 128, 128, 128, 128, 128 >>
              :> << 125, 38, 47, 234, 23, 12, 24, 117, 3, 167, 156, 109, 56, 39, 164, 237, 124, 222, 226, 208, 0, 227, 13, 249,
                    33, 119, 235, 34, 237, 227, 36, 130 >>)
             @@
             (<< 248, 81, 128, 160, 211, 102, 187, 17, 52, 83, 109, 168, 35, 25, 170, 198, 86, 30, 155, 113, 162, 93, 203, 136,
                 140, 57, 89, 89, 24, 118, 177, 223, 169, 198, 68, 169, 160, 101, 217, 52, 11, 204, 251, 208, 88, 44, 75, 121,
                 112, 138, 247, 197, 140, 203, 240, 115, 227, 95, 29, 158, 162, 86, 151, 40, 37, 213, 155, 5, 240, 128, 128, 128,
                 128, 128, 128, 128, 128, 128, 128, 128, 128, 128, 7 >>
              :> << 30, 139, 210, 188, 133, 116, 65, 27, 190, 90, 178, 160, 244, 147, 76, 229, 84, 31, 19, 37, 56, 53, 33, 195,
                    180, 167, 68, 120, 207, 186, 46, 150 >>)
            )
            @@
            (
             (<< 248, 81, 128, 160, 211, 102, 187, 17, 52, 83, 109, 168, 35, 25, 170, 198, 86, 30, 155, 113, 162, 93, 203, 136,
                 140, 57, 89, 89, 24, 118, 177, 223, 169, 198, 68, 169, 160, 101, 217, 52, 11, 204, 251, 208, 88, 44, 75, 121,
                 112, 138, 247, 197, 140, 203, 240, 115, 227, 95, 29, 158, 162, 86, 151, 40, 37, 213, 155, 5, 240, 128, 128, 128,
                 128, 128, 128, 128, 128, 128, 128, 128, 128, 128, 128 >>
              :> << 229, 78, 241, 249, 110, 139, 46, 178, 157, 104, 111, 124, 21, 78, 138, 240, 162, 114, 41, 168, 171, 238, 54, 29,
                    163, 125, 77, 112, 89, 197, 0, 77 >>)
             @@
             (
              (<< 248, 81, 128, 160, 211, 102, 187, 17, 52, 83, 109, 168, 35, 25, 170, 198, 86, 30, 155, 113, 162, 93, 203, 136,
                  140, 57, 89, 89, 24, 118, 177, 223, 169, 198, 68, 169, 160, 110, 20, 40, 238, 143, 128, 161, 48, 58, 182, 18,
                  178, 137, 253, 43, 150, 192, 237, 23, 37, 54, 122, 88, 220, 106, 174, 194, 164, 72, 96, 66, 208, 128, 128, 128,
                  128, 128, 128, 128, 128, 128, 128, 128, 128, 128, 128 >>
               :> << 207, 75, 176, 218, 156, 36, 5, 196, 242, 254, 11, 9, 179, 208, 237, 192, 45, 238, 222, 35, 81, 93, 134, 229,
                     194, 34, 132, 10, 22, 114, 249, 93 >>)
              @@
              (<< 248, 81, 128, 160, 211, 102, 187, 17, 52, 83, 109, 168, 35, 25, 170, 198, 86, 30, 155, 113, 162, 93, 203, 136,
                  140, 57, 89, 89, 24, 118, 177, 223, 169, 198, 68, 169, 160, 133, 91, 225, 140, 224, 190, 115, 161, 244, 36, 216,
                  39, 113, 18, 199, 76, 17, 0, 183, 62, 123, 60, 41, 253, 46, 190, 54, 18, 35, 66, 204, 74, 128, 128, 128,
                  128, 128, 128, 128, 128, 128, 128, 128, 128, 128, 128 >>
               :> << 204, 141, 15, 119, 177, 11, 167, 232, 77, 143, 184, 29, 109, 245, 244, 221, 232, 10, 53, 150, 165, 15, 13, 196,
                     53, 75, 61, 78, 117, 216, 43, 109 >>)
             )
            )
           )
           @@
           (
            (
             (<< 248, 81, 128, 160, 211, 102, 187, 17, 52, 83, 109, 168, 35, 25, 170, 198, 86, 30, 155, 113, 162, 93, 203, 136,
                 140, 57, 89, 89, 24, 118, 177, 223, 169, 198, 68, 169, 160, 160, 55, 87, 191, 65, 234, 3, 59, 73, 239, 113,
                 134, 143, 229, 234, 122, 152, 215, 191, 44, 162, 226, 64, 178, 168, 152, 185, 85, 223, 146, 16, 123, 128, 128, 128,
                 128, 128, 128, 128, 128, 128, 128, 128, 128, 128, 7 >>
              :> << 172, 218, 110, 61, 63, 21, 103, 122, 93, 60, 2, 50, 222, 110, 103, 128, 204, 79, 135, 38, 90, 242, 222, 250,
                    137, 148, 251, 40, 141, 27, 202, 72 >>)
             @@
             (<< 248, 81, 128, 160, 211, 102, 187, 17, 52, 83, 109, 168, 35, 25, 170, 198, 86, 30, 155, 113, 162, 93, 203, 136,
                 140, 57, 89, 89, 24, 118, 177, 223, 169, 198, 68, 169, 160, 160, 55, 87, 191, 65, 234, 3, 59, 73, 239, 113,
                 134, 143, 229, 234, 122, 152, 215, 191, 44, 162, 226, 64, 178, 168, 152, 185, 85, 223, 146, 16, 123, 128, 128, 128,
                 128, 128, 128, 128, 128, 128, 128, 128, 128, 128, 128 >>
              :> << 221, 2, 163, 230, 195, 248, 13, 69, 156, 226, 118, 8, 112, 79, 178, 193, 239, 56, 92, 85, 174, 68, 242, 67,
                    8, 87, 131, 154, 225, 43, 35, 79 >>)
            )
            @@
            (
             (<< 248, 81, 128, 160, 211, 102, 187, 17, 52, 83, 109, 168, 35, 25, 170, 198, 86, 30, 155, 113, 162, 93, 203, 136,
                 140, 57, 89, 89, 24, 118, 177, 223, 169, 198, 68, 169, 160, 211, 102, 187, 17, 52, 83, 109, 168, 35, 25, 170,
                 198, 86, 30, 155, 113, 162, 93, 203, 136, 140, 57, 89, 89, 24, 118, 177, 223, 169, 198, 68, 169, 128, 128, 128,
                 128, 128, 128, 128, 128, 128, 128, 128, 128, 128, 128 >>
              :> << 222, 164, 75, 92, 202, 177, 10, 49, 239, 155, 132, 249, 246, 22, 116, 55, 48, 6, 134, 13, 254, 241, 204, 234,
                    25, 131, 92, 248, 169, 143, 147, 1 >>)
             @@
             (
              (<< 248, 81, 128, 160, 211, 102, 187, 17, 52, 83, 109, 168, 35, 25, 170, 198, 86, 30, 155, 113, 162, 93, 203, 136,
                  140, 57, 89, 89, 24, 118, 177, 223, 169, 198, 68, 169, 160, 219, 234, 87, 12, 189, 96, 101, 213, 252, 102, 211,
                  178, 212, 49, 240, 83, 141, 108, 45, 230, 213, 229, 98, 253, 208, 170, 185, 132, 7, 166, 10, 145, 128, 128, 128,
                  128, 128, 128, 128, 128, 128, 128, 128, 128, 128, 7 >>
               :> << 253, 127, 49, 30, 44, 207, 233, 215, 202, 253, 131, 33, 255, 120, 25, 107, 206, 229, 248, 16, 24, 18, 251, 158,
                     147, 130, 224, 59, 153, 12, 156, 20 >>)
              @@
              (<< 248, 81, 128, 160, 211, 102, 187, 17, 52, 83, 109, 168, 35, 25, 170, 198, 86, 30, 155, 113, 162, 93, 203, 136,
                  140, 57, 89, 89, 24, 118, 177, 223, 169, 198, 68, 169, 160, 219, 234, 87, 12, 189, 96, 101, 213, 252, 102, 211,
                  178, 212, 49, 240, 83, 141, 108, 45, 230, 213, 229, 98, 253, 208, 170, 185, 132, 7, 166, 10, 145, 128, 128, 128,
                  128, 128, 128, 128, 128, 128, 128, 128, 128, 128, 128 >>
               :> << 104, 187, 235, 169, 199, 207, 176, 52, 29, 123, 117, 105, 205, 35, 124, 223, 119, 56, 164, 229, 156, 23, 46, 86,
                     100, 144, 0, 100, 65, 202, 155, 142 >>)
             )
            )
           )
          )
          @@
          (
           (
            (
             (<< 248, 81, 128, 160, 211, 102, 187, 17, 52, 83, 109, 168, 35, 25, 170, 198, 86, 30, 155, 113, 162, 93, 203, 136,
                 140, 57, 89, 89, 24, 118, 177, 223, 169, 198, 68, 169, 160, 237, 204, 219, 228, 55, 207, 164, 155, 250, 77, 24,
                 111, 217, 28, 160, 37, 123, 146, 10, 236, 6, 23, 173, 202, 14, 152, 134, 108, 215, 209, 151, 213, 128, 128, 128,
                 128, 128, 128, 128, 128, 128, 128, 128, 128, 128, 128 >>
              :> << 58, 226, 38, 56, 28, 43, 217, 120, 156, 155, 67, 105, 179, 106, 85, 143, 125, 80, 223, 145, 248, 62, 44, 56,
                    223, 220, 118, 92, 161, 95, 94, 94 >>)
             @@
             (<< 248, 81, 128, 160, 213, 158, 209, 212, 74, 39, 208, 249, 129, 198, 28, 122, 66, 165, 251, 53, 211, 217, 40, 76,
                 34, 249, 243, 106, 253, 47, 213, 55, 36, 37, 88, 175, 128, 128, 128, 128, 128, 128, 128, 128, 128, 128, 128, 128,
                 128, 128, 160, 170, 170, 170, 170, 170, 170, 170, 170, 170, 170, 170, 170, 170, 170, 170, 170, 170, 170, 170, 170, 170,
                 170, 170, 170, 170, 170, 170, 170, 170, 170, 170, 170 >>
              :> << 51, 1, 114, 78, 124, 195, 165, 33, 122, 174, 234, 23, 13, 191, 86, 245, 101, 149, 85, 169, 30, 147, 219, 194,
                    185, 219, 235, 93, 61, 22, 55, 55 >>)
            )
            @@
            (
             (<< 248, 81, 128, 160, 214, 193, 237, 138, 171, 59, 98, 181, 39, 152, 98, 41, 211, 138, 147, 111, 225, 193, 46, 113,
                 188, 146, 21, 242, 97, 252, 46, 36, 211, 33, 198, 206, 128, 128, 128, 128, 128, 128, 128, 128, 128, 128, 128, 128,
                 128, 128, 160, 170, 170, 170, 170, 170, 170, 170, 170, 170, 170, 170, 170, 170, 170, 170, 170, 170, 170, 170, 170, 170,
                 170, 170, 170, 170, 170, 170, 170, 170, 170, 170, 170 >>
              :> << 246, 4, 245, 180, 207, 175, 164, 95, 180, 161, 149, 209, 170, 218, 143, 153, 118, 99, 52, 253, 234, 11, 231, 210,
                    161, 77, 242, 101, 28, 120, 33, 136 >>)
             @@
             (
              (<< 248, 81, 128, 160, 215, 133, 177, 175, 70, 14, 23, 98, 71, 101, 235, 46, 123, 155, 218, 113, 121, 114, 4, 29,
                  82, 161, 84, 49, 27, 238, 29, 146, 210, 67, 118, 111, 128, 128, 128, 128, 128, 128, 128, 128, 128, 128, 128, 128,
                  128, 128, 160, 170, 170, 170, 170, 170, 170, 170, 170, 170, 170, 170, 170, 170, 170, 170, 170, 170, 170, 170, 170, 170,
                  170, 170, 170, 170, 170, 170, 170, 170, 170, 170, 170 >>
               :> << 160, 55, 87, 191, 65, 234, 3, 59, 73, 239, 113, 134, 143, 229, 234, 122, 152, 215, 191, 44, 162, 226, 64, 178,
                     168, 152, 185, 85, 223, 146, 16, 123 >>)
              @@
              (<< 248, 81, 128, 160, 215, 133, 177, 175, 70, 14, 23, 98, 71, 101, 235, 46, 123, 155, 218, 113, 121, 114, 4, 29,
                  82, 161, 84, 49, 27, 238, 29, 146, 210, 67, 118, 111, 160, 215, 133, 177, 175, 70, 14, 23, 98, 71, 101, 235,
                  46, 123, 155, 218, 113, 121, 114, 4, 29, 82, 161, 84, 49, 27, 238, 29, 146, 210, 67, 118, 111, 128, 128, 128,
                  128, 128, 128, 128, 128, 128, 128, 128, 128, 128, 128 >>
               :> << 88, 229, 152, 11, 171, 205, 76, 6, 151, 0, 132, 63, 158, 59, 25, 97, 35, 48, 135, 27, 208, 85, 193, 111,
                     231, 242, 142, 9, 140, 108, 232, 148 >>)
             )
            )
           )
           @@
           (
            (
             (<< 248, 81, 128, 160, 219, 207, 18, 235, 39, 197, 237, 172, 217, 173, 54, 201, 55, 71, 227, 146, 135, 214, 135, 129,
                 41, 186, 248, 176, 59, 255, 159, 241, 172, 222, 42, 195, 128, 128, 128, 128, 128, 128, 128, 128, 128, 128, 128, 128,
                 128, 128, 160, 170, 170, 170, 170, 170, 170, 170, 170, 170, 170, 170, 170, 170, 170, 170, 170, 170, 170, 170, 170, 170,
                 170, 170, 170, 170, 170, 170, 170, 170, 170, 170, 170 >>
              :> << 235, 238, 12, 44, 199, 9, 150, 237, 18, 229, 138, 234, 171, 48, 189, 179, 26, 144, 175, 114, 229, 92, 24, 167,
                    161, 183, 166, 1, 214, 211, 134, 48 >>)
             @@
             (<< 248, 81, 128, 160, 219, 234, 87, 12, 189, 96, 101, 213, 252, 102, 211, 178, 212, 49, 240, 83, 141, 108, 45, 230,
                 213, 229, 98, 253, 208, 170, 185, 132, 7, 166, 10, 145, 128, 128, 128, 128, 128, 128, 128, 128, 128, 128, 128, 128,
                 128, 128, 160, 170, 170, 170, 170, 170, 170, 170, 170, 170, 170, 170, 170, 170, 170, 170, 170, 170, 170, 170, 170, 170,
                 170, 170, 170, 170, 170, 170, 170, 170, 170, 170, 170 >>
              :> << 26, 17, 53, 240, 149, 18, 187, 89, 199, 30, 224, 161, 181, 221, 44, 31, 194, 78, 217, 29, 21, 12, 148, 253,
                    214, 105, 164, 209, 89, 254, 92, 146 >>)
            )
            @@
            (
             (<< 248, 81, 128, 160, 219, 234, 87, 12, 189, 96, 101, 213, 252, 102, 211, 178, 212, 49, 240, 83, 141, 108, 45, 230,
                 213, 229, 98, 253, 208, 170, 185, 132, 7, 166, 10, 145, 160, 15, 210, 121, 87, 19, 39, 9, 66, 180, 2, 58,
                 251, 48, 178, 87, 132, 197, 136, 32, 191, 237, 14, 224, 49, 250, 1, 163, 166, 100, 35, 60, 19, 128, 128, 128,
                 128, 128, 128, 128, 128, 128, 128, 128, 128, 128, 7 >>
              :> << 18, 33, 168, 73, 197, 170, 217, 168, 213, 41, 20, 220, 150, 234, 84, 235, 149, 33, 66, 210, 194, 209, 33, 173,
                    112, 88, 209, 0, 224, 216, 4, 107 >>)
             @@
             (
              (<< 248, 81, 128, 160, 219, 234, 87, 12, 189, 96, 101, 213, 252, 102, 211, 178, 212, 49, 240, 83, 141, 108, 45, 230,
                  213, 229, 98, 253, 208, 170, 185, 132, 7, 166, 10, 145, 160, 15, 210, 121, 87, 19, 39, 9, 66, 180, 2, 58,
                  251, 48, 178, 87, 132, 197, 136, 32, 191, 237, 14, 224, 49, 250, 1, 163, 166, 100, 35, 60, 19, 128, 128, 128,
                  128, 128, 128, 128, 128, 128, 128, 128, 128, 128, 128 >>
               :> << 111, 27, 4, 38, 52, 53, 226, 115, 103, 60, 150, 30, 172, 188, 157, 23, 94, 106, 26, 247, 216, 57, 214, 57,
                     95, 133, 175, 132, 88, 88, 22, 93 >>)
              @@
              (<< 248, 81, 128, 160, 219, 234, 87, 12, 189, 96, 101, 213, 252, 102, 211, 178, 212, 49, 240, 83, 141, 108, 45, 230,
                  213, 229, 98, 253, 208, 170, 185, 132, 7, 166, 10, 145, 160, 101, 217, 52, 11, 204, 251, 208, 88, 44, 75, 121,
                  112, 138, 247, 197, 140, 203, 240, 115, 227, 95, 29, 158, 162, 86, 151, 40, 37, 213, 155, 5, 240, 128, 128, 128,
                  128, 128, 128, 128, 128, 128, 128, 128, 128, 128, 7 >>
               :> << 180, 204, 33, 137, 78, 12, 219, 102, 46, 137, 4, 20, 230, 24, 225, 49, 39, 43, 33, 103, 163, 232, 214, 194,
                     138, 226, 142, 16, 17, 71, 107, 50 >>)
             )
            )
           )
          )
         )
         @@
         (
          (
           (
            (
             (<< 248, 81, 128, 160, 219, 234, 87, 12, 189, 96, 101, 213, 252, 102, 211, 178, 212, 49, 240, 83, 141, 108, 45, 230,
                 213, 229, 98, 253, 208, 170, 185, 132, 7, 166, 10, 145, 160, 101, 217, 52, 11, 204, 251, 208, 88, 44, 75, 121,
                 112, 138, 247, 197, 140, 203, 240, 115, 227, 95, 29, 158, 162, 86, 151, 40, 37, 213, 155, 5, 240, 128, 128, 128,
                 128, 128, 128, 128, 128, 128, 128, 128, 128, 128, 128 >>
              :> << 115, 67, 189, 136, 206, 36, 3, 154, 107, 185, 31, 213, 171, 53, 79, 93, 253, 174, 156, 33, 33, 175, 142, 238,
                    199, 121, 184, 178, 31, 83, 130, 89 >>)
             @@
             (<< 248, 81, 128, 160, 219, 234, 87, 12, 189, 96, 101, 213, 252, 102, 211, 178, 212, 49, 240, 83, 141, 108, 45, 230,
                 213, 229, 98, 253, 208, 170, 185, 132, 7, 166, 10, 145, 160, 110, 20, 40, 238, 143, 128, 161, 48, 58, 182, 18,
                 178, 137, 253, 43, 150, 192, 237, 23, 37, 54, 122, 88, 220, 106, 174, 194, 164, 72, 96, 66, 208, 128, 128, 128,
                 128, 128, 128, 128, 128, 128, 128, 128, 128, 128, 7 >>
              :> << 85, 155, 209, 193, 52, 199, 255, 10, 29, 250, 95, 226, 19, 38, 94, 101, 16, 251, 238, 17, 9, 36, 249, 54,
                    27, 8, 166, 137, 76, 238, 55, 125 >>)
            )
            @@
            (
             (<< 248, 81, 128, 160, 219, 234, 87, 12, 189, 96, 101, 213, 252, 102, 211, 178, 212, 49, 240, 83, 141, 108, 45, 230,
                 213, 229, 98, 253, 208, 170, 185, 132, 7, 166, 10, 145, 160, 110, 20, 40, 238, 143, 128, 161, 48, 58, 182, 18,
                 178, 137, 253, 43, 150, 192, 237, 23, 37, 54, 122, 88, 220, 106, 174, 194, 164, 72, 96, 66, 208, 128, 128, 128,
                 128, 128, 128, 128, 128, 128, 128, 128, 128, 128, 128 >>
              :> << 14, 7, 1, 54, 175, 112, 84, 167, 91, 134, 253, 183, 97, 191, 241, 124, 28, 230, 22, 87, 143, 203, 238, 231,
                    180, 34, 132, 59, 161, 101, 1, 217 >>)
             @@
             (
              (<< 248, 81, 128, 160, 219, 234, 87, 12, 189, 96, 101, 213, 252, 102, 211, 178, 212, 49, 240, 83, 141, 108, 45, 230,
                  213, 229, 98, 253, 208, 170, 185, 132, 7, 166, 10, 145, 160, 133, 91, 225, 140, 224, 190, 115, 161, 244, 36, 216,
                  39, 113, 18, 199, 76, 17, 0, 183, 62, 123, 60, 41, 253, 46, 190, 54, 18, 35, 66, 204, 74, 128, 128, 128,
                  128, 128, 128, 128, 128, 128, 128, 128, 128, 128, 7 >>
               :> << 29, 2, 181, 252, 196, 102, 90, 4, 138, 27, 44, 88, 58, 70, 41, 125, 108, 58, 64, 98, 212, 127, 228, 21,
                     42, 22, 171, 183, 36, 181, 252, 92 >>)
              @@
              (<< 248, 81, 128, 160, 219, 234, 87, 12, 189, 96, 101, 213, 252, 102, 211, 178, 212, 49, 240, 83, 141, 108, 45, 230,
                  213, 229, 98, 253, 208, 170, 185, 132, 7, 166, 10, 145, 160, 133, 91, 225, 140, 224, 190, 115, 161, 244, 36, 216,
                  39, 113, 18, 199, 76, 17, 0, 183, 62, 123, 60, 41, 253, 46, 190, 54, 18, 35, 66, 204, 74, 128, 128, 128,
                  128, 128, 128, 128, 128, 128, 128, 128, 128, 128, 128 >>
               :> << 81, 254, 212, 88, 20, 63, 71, 249, 186, 188, 196, 147, 76, 230, 41, 37, 64, 136, 186, 254, 215, 183, 80, 155,
                     240, 88, 135, 239, 217, 115, 129, 11 >>)
             )
            )
           )
           @@
           (
            (
             (<< 248, 81, 128, 160, 219, 234, 87, 12, 189, 96, 101, 213, 252, 102, 211, 178, 212, 49, 240, 83, 141, 108, 45, 230,
                 213, 229, 98, 253, 208, 170, 185, 132, 7, 166, 10, 145, 160, 160, 55, 87, 191, 65, 234, 3, 59, 73, 239, 113,
                 134, 143, 229, 234, 122, 152, 215, 191, 44, 162, 226, 64, 178, 168, 152, 185, 85, 223, 146, 16, 123, 128, 128, 128,
                 128, 128, 128, 128, 128, 128, 128, 128, 128, 128, 7 >>
              :> << 168, 168, 10, 87, 226, 80, 89, 47, 148, 210, 171, 142, 249, 129, 205, 196, 65, 125, 148, 136, 24, 7, 146, 108,
                    119, 201, 247, 225, 105, 158, 244, 75 >>)
             @@
             (<< 248, 81, 128, 160, 219, 234, 87, 12, 189, 96, 101, 213, 252, 102, 211, 178, 212, 49, 240, 83, 141, 108, 45, 230,
                 213, 229, 98, 253, 208, 170, 185, 132, 7, 166, 10, 145, 160, 160, 55, 87, 191, 65, 234, 3, 59, 73, 239, 113,
                 134, 143, 229, 234, 122, 152, 215, 191, 44, 162, 226, 64, 178, 168, 152, 185, 85, 223, 146, 16, 123, 128, 128, 128,
                 128, 128, 128, 128, 128, 128, 128, 128, 128, 128, 128 >>
              :> << 225, 99, 14, 229, 167, 213, 16, 71, 245, 24, 214, 252, 81, 84, 91, 212, 169, 214, 183, 21, 223, 220, 152, 40,
                    244, 80, 202, 16, 217, 129, 250, 85 >>)
            )
            @@
            (
             (<< 248, 81, 128, 160, 219, 234, 87, 12, 189, 96, 101, 213, 252, 102, 211, 178, 212, 49, 240, 83, 141, 108, 45, 230,
                 213, 229, 98, 253, 208, 170, 185, 132, 7, 166, 10, 145, 160, 211, 102, 187, 17, 52, 83, 109, 168, 35, 25, 170,
                 198, 86, 30, 155, 113, 162, 93, 203, 136, 140, 57, 89, 89, 24, 118, 177, 223, 169, 198, 68, 169, 128, 128, 128,
                 128, 128, 128, 128, 128, 128, 128, 128, 128, 128, 7 >>
              :> << 21, 190, 134, 212, 83, 252, 181, 73, 179, 246, 225, 84, 6, 214, 88, 184, 169, 113, 207, 160, 154, 5, 143, 187,
                    12, 186, 235, 126, 211, 53, 244, 148 >>)
             @@
             (
              (<< 248, 81, 128, 160, 219, 234, 87, 12, 189, 96, 101, 213, 252, 102, 211, 178, 212, 49, 240, 83, 141, 108, 45, 230,
                  213, 229, 98, 253, 208, 170, 185, 132, 7, 166, 10, 145, 160, 211, 102, 187, 17, 52, 83, 109, 168, 35, 25, 170,
                  198, 86, 30, 155, 113, 162, 93, 203, 136, 140, 57, 89, 89, 24, 118, 177, 223, 169, 198, 68, 169, 128, 128, 128,
                  128, 128, 128, 128, 128, 128, 128, 128, 128, 128, 128 >>
               :> << 23, 71, 225, 123, 194, 232, 179, 207, 153, 229, 98, 221, 116, 4, 170, 88, 116, 172, 249, 26, 249, 160, 138, 115,
                     189, 225, 251, 242, 20, 249, 25, 102 >>)
              @@
              (<< 248, 81, 128, 160, 219, 234, 87, 12, 189, 96, 101, 213, 252, 102, 211, 178, 212, 49, 240, 83, 141, 108, 45, 230,
                  213, 229, 98, 253, 208, 170, 185, 132, 7, 166, 10, 145, 160, 219, 234, 87, 12, 189, 96, 101, 213, 252, 102, 211,
                  178, 212, 49, 240, 83, 141, 108, 45, 230, 213, 229, 98, 253, 208, 170, 185, 132, 7, 166, 10, 145, 128, 128, 128,
                  128, 128, 128, 128, 128, 128, 128, 128, 128, 128, 7 >>
               :> << 135, 10, 207, 255, 178, 27, 59, 124, 157, 13, 148, 236, 130, 135, 228, 143, 113, 11, 146, 184, 54, 131, 9, 29,
                     189, 246, 77, 152, 97, 83, 219, 65 >>)
             )
            )
           )
          )
          @@
          (
           (
            (
             (<< 248, 81, 128, 160, 219, 234, 87, 12, 189, 96, 101, 213, 252, 102, 211, 178, 212, 49, 240, 83, 141, 108, 45, 230,
                 213, 229, 98, 253, 208, 170, 185, 132, 7, 166, 10, 145, 160, 219, 234, 87, 12, 189, 96, 101, 213, 252, 102, 211,
                 178, 212, 49, 240, 83, 141, 108, 45, 230, 213, 229, 98, 253, 208, 170, 185, 132, 7, 166, 10, 145, 128, 128, 128,
                 128, 128, 128, 128, 128, 128, 128, 128, 128, 128, 128 >>
              :> << 4, 101, 235, 15, 164, 229, 124, 142, 211, 144, 221, 190, 173, 175, 105, 85, 168, 118, 48, 110, 253, 161, 194, 55,
                    228, 221, 235, 139, 155, 155, 202, 241 >>)
             @@
             (<< 248, 81, 128, 160, 219, 234, 87, 12, 189, 96, 101, 213, 252, 102, 211, 178, 212, 49, 240, 83, 141, 108, 45, 230,
                 213, 229, 98, 253, 208, 170, 185, 132, 7, 166, 10, 145, 160, 237, 204, 219, 228, 55, 207, 164, 155, 250, 77, 24,
                 111, 217, 28, 160, 37, 123, 146, 10, 236, 6, 23, 173, 202, 14, 152, 134, 108, 215, 209, 151, 213, 128, 128, 128,
                 128, 128, 128, 128, 128, 128, 128, 128, 128, 128, 7 >>
              :> << 55, 11, 255, 61, 188, 89, 95, 126, 192, 225, 33, 229, 220, 34, 220, 237, 104, 225, 120, 234, 99, 202, 251, 87,
                    213, 240, 43, 109, 94, 21, 35, 98 >>)
            )
            @@
            (
             (<< 248, 81, 128, 160, 219, 234, 87, 12, 189, 96, 101, 213, 252, 102, 211, 178, 212, 49, 240, 83, 141, 108, 45, 230,
                 213, 229, 98, 253, 208, 170, 185, 132, 7, 166, 10, 145, 160, 237, 204, 219, 228, 55, 207, 164, 155, 250, 77, 24,
                 111, 217, 28, 160, 37, 123, 146, 10, 236, 6, 23, 173, 202, 14, 152, 134, 108, 215, 209, 151, 213, 128, 128, 128,
                 128, 128, 128, 128, 128, 128, 128, 128, 128, 128, 128 >>
              :> << 144, 127, 164, 50, 218, 91, 32, 169, 1, 70, 7, 6, 233, 60, 140, 62, 159, 120, 149, 246, 122, 243, 184, 109,
                    159, 109, 82, 27, 28, 209, 58, 55 >>)
             @@
             (
              (<< 248, 81, 128, 160, 221, 101, 33, 65, 105, 223, 231, 128, 199, 7, 62, 136, 179, 19, 50, 248, 238, 119, 213, 93,
                  75, 237, 164, 253, 188, 127, 202, 96, 165, 130, 199, 204, 128, 128, 128, 128, 128, 128, 128, 128, 128, 128, 128, 128,
                  128, 128, 160, 170, 170, 170, 170, 170, 170, 170, 170, 170, 170, 170, 170, 170, 170, 170, 170, 170, 170, 170, 170, 170,
                  170, 170, 170, 170, 170, 170, 170, 170, 170, 170, 170 >>
               :> << 233, 178, 121, 129, 228, 221, 118, 117, 73, 82, 221, 12, 243, 22, 65, 60, 193, 28, 133, 182, 85, 48, 54, 164,
                     185, 40, 28, 254, 247, 43, 122, 34 >>)
              @@
              (<< 248, 81, 128, 160, 237, 204, 219, 228, 55, 207, 164, 155, 250, 77, 24, 111, 217, 28, 160, 37, 123, 146, 10, 236,
                  6, 23, 173, 202, 14, 152, 134, 108, 215, 209, 151, 213, 160, 15, 210, 121, 87, 19, 39, 9, 66, 180, 2, 58,
                  251, 48, 178, 87, 132, 197, 136, 32, 191, 237, 14, 224, 49, 250, 1, 163, 166, 100, 35, 60, 19, 128, 128, 128,
                  128, 128, 128, 128, 128, 128, 128, 128, 128, 128, 7 >>
               :> << 131, 3, 134, 152, 55, 255, 41, 226, 77, 64, 196, 30, 209, 127, 234, 203, 8, 6, 244, 193, 188, 81, 11, 69,
                     82, 130, 222, 50, 161, 131, 198, 62 >>)
             )
            )
           )
           @@
           (
            (
             (<< 248, 81, 128, 160, 237, 204, 219, 228, 55, 207, 164, 155, 250, 77, 24, 111, 217, 28, 160, 37, 123, 146, 10, 236,
                 6, 23, 173, 202, 14, 152, 134, 108, 215, 209, 151, 213, 160, 15, 210, 121, 87, 19, 39, 9, 66, 180, 2, 58,
                 251, 48, 178, 87, 132, 197, 136, 32, 191, 237, 14, 224, 49, 250, 1, 163, 166, 100, 35, 60, 19, 128, 128, 128,
                 128, 128, 128, 128, 128, 128, 128, 128, 128, 128, 128 >>
              :> << 95, 176, 144, 93, 255, 192, 192, 5, 92, 91, 57, 168, 44, 207, 208, 146, 0, 109, 246, 178, 188, 231, 245, 168,
                    127, 30, 220, 171, 195, 148, 176, 90 >>)
             @@
             (<< 248, 81, 128, 160, 237, 204, 219, 228, 55, 207, 164, 155, 250, 77, 24, 111, 217, 28, 160, 37, 123, 146, 10, 236,
                 6, 23, 173, 202, 14, 152, 134, 108, 215, 209, 151, 213, 160, 88, 229, 152, 11, 171, 205, 76, 6, 151, 0, 132,
                 63, 158, 59, 25, 97, 35, 48, 135, 27, 208, 85, 193, 111, 231, 242, 142, 9, 140, 108, 232, 148, 128, 128, 128,
                 128, 128, 128, 128, 128, 128, 128, 128, 128, 128, 128 >>
              :> << 4, 93, 71, 91, 116, 160, 146, 41, 231, 153, 250, 227, 64, 186, 230, 65, 215, 178, 20, 34, 37, 130, 22, 178,
                    17, 188, 74, 43, 151, 20, 169, 7 >>)
            )
            @@
            (
             (<< 248, 81, 128, 160, 237, 204, 219, 228, 55, 207, 164, 155, 250, 77, 24, 111, 217, 28, 160, 37, 123, 146, 10, 236,
                 6, 23, 173, 202, 14, 152, 134, 108, 215, 209, 151, 213, 160, 98, 73, 234, 54, 131, 64, 1, 163, 57, 155, 97,
                 224, 8, 50, 79, 206, 164, 65, 7, 64, 29, 174, 94, 33, 246, 138, 173, 89, 184, 182, 45, 143, 128, 128, 128,
                 128, 128, 128, 128, 128, 128, 128, 128, 128, 128, 128 >>
              :> << 173, 213, 160, 228, 212, 161, 206, 243, 191, 178, 62, 229, 181, 132, 221, 18, 100, 119, 92, 38, 127, 135, 239, 21,
                    142, 216, 249, 33, 98, 43, 209, 5 >>)
             @@
             (
              (<< 248, 81, 128, 160, 237, 204, 219, 228, 55, 207, 164, 155, 250, 77, 24, 111, 217, 28, 160, 37, 123, 146, 10, 236,
                  6, 23, 173, 202, 14, 152, 134, 108, 215, 209, 151, 213, 160, 101, 217, 52, 11, 204, 251, 208, 88, 44, 75, 121,
                  112, 138, 247, 197, 140, 203, 240, 115, 227, 95, 29, 158, 162, 86, 151, 40, 37, 213, 155, 5, 240, 128, 128, 128,
                  128, 128, 128, 128, 128, 128, 128, 128, 128, 128, 7 >>
               :> << 225, 65, 216, 96, 186, 244, 136, 24, 195, 123, 203, 25, 242, 55, 9, 151, 7, 152, 118, 91, 190, 77, 176, 87,
                     219, 209, 241, 246, 13, 113, 85, 18 >>)
              @@
              (<< 248, 81, 128, 160, 237, 204, 219, 228, 55, 207, 164, 155, 250, 77, 24, 111, 217, 28, 160, 37, 123, 146, 10, 236,
                  6, 23, 173, 202, 14, 152, 134, 108, 215, 209, 151, 213, 160, 101, 217, 52, 11, 204, 251, 208, 88, 44, 75, 121,
                  112, 138, 247, 197, 140, 203, 240, 115, 227, 95, 29, 158, 162, 86, 151, 40, 37, 213, 155, 5, 240, 128, 128, 128,
                  128, 128, 128, 128, 128, 128, 128, 128, 128, 128, 128 >>
               :> << 74, 146, 111, 59, 58, 56, 226, 3, 255, 78, 81, 197, 236, 190, 249, 23, 159, 97, 196, 113, 212, 222, 192, 75,
                     255, 41, 235, 115, 10, 17, 32, 238 >>)
             )
            )
           )
          )
         )
        )
       )
       @@
       (
        (
         (
          (
           (
            (
             (<< 248, 81, 128, 160, 237, 204, 219, 228, 55, 207, 164, 155, 250, 77, 24, 111, 217, 28, 160, 37, 123, 146, 10, 236,
                 6, 23, 173, 202, 14, 152, 134, 108, 215, 209, 151, 213, 160, 110, 20, 40, 238, 143, 128, 161, 48, 58, 182, 18,
                 178, 137, 253, 43, 150, 192, 237, 23, 37, 54, 122, 88, 220, 106, 174, 194, 164, 72, 96, 66, 208, 128, 128, 128,
                 128, 128, 128, 128, 128, 128, 128, 128, 128, 128, 128 >>
              :> << 122, 216, 240, 43, 22, 195, 70, 194, 203, 37, 42, 92, 242, 232, 241, 201, 82, 64, 82, 189, 93, 4, 247, 129,
                    61, 199, 38, 47, 64, 116, 108, 101 >>)
             @@
             (<< 248, 81, 128, 160, 237, 204, 219, 228, 55, 207, 164, 155, 250, 77, 24, 111, 217, 28, 160, 37, 123, 146, 10, 236,
                 6, 23, 173, 202, 14, 152, 134, 108, 215, 209, 151, 213, 160, 124, 230, 218, 79, 193, 196, 115, 34, 73, 20, 80,
                 30, 94, 62, 200, 140, 48, 26, 126, 108, 98, 57, 81, 24, 129, 196, 28, 255, 208, 123, 197, 74, 128, 128, 128,
                 128, 128, 128, 128, 128, 128, 128, 128, 128, 128, 128 >>
              :> << 62, 94, 248, 39, 253, 14, 230, 234, 219, 201, 228, 247, 61, 252, 17, 91, 201, 249, 73, 144, 106, 29, 83, 24,
                    1, 251, 49, 190, 45, 25, 237, 16 >>)
            )
            @@
            (
             (<< 248, 81, 128, 160, 237, 204, 219, 228, 55, 207, 164, 155, 250, 77, 24, 111, 217, 28, 160, 37, 123, 146, 10, 236,
                 6, 23, 173, 202, 14, 152, 134, 108, 215, 209, 151, 213, 160, 133, 91, 225, 140, 224, 190, 115, 161, 244, 36, 216,
                 39, 113, 18, 199, 76, 17, 0, 183, 62, 123, 60, 41, 253, 46, 190, 54, 18, 35, 66, 204, 74, 128, 128, 128,
                 128, 128, 128, 128, 128, 128, 128, 128, 128, 128, 128 >>
              :> << 174, 200, 56, 137, 155, 38, 246, 249, 133, 88, 140, 60, 39, 254, 202, 182, 213, 114, 147, 241, 221, 139, 31, 11,
                    59, 206, 59, 169, 136, 79, 211, 116 >>)
             @@
             (
              (<< 248, 81, 128, 160, 237, 204, 219, 228, 55, 207, 164, 155, 250, 77, 24, 111, 217, 28, 160, 37, 123, 146, 10, 236,
                  6, 23, 173, 202, 14, 152, 134, 108, 215, 209, 151, 213, 160, 160, 55, 87, 191, 65, 234, 3, 59, 73, 239, 113,
                  134, 143, 229, 234, 122, 152, 215, 191, 44, 162, 226, 64, 178, 168, 152, 185, 85, 223, 146, 16, 123, 128, 128, 128,
                  128, 128, 128, 128, 128, 128, 128, 128, 128, 128, 7 >>
               :> << 244, 248, 240, 123, 77, 63, 156, 212, 22, 192, 83, 100, 35, 205, 218, 199, 178, 202, 238, 139, 186, 26, 188, 206,
                     94, 32, 68, 114, 106, 240, 90, 159 >>)
              @@
              (<< 248, 81, 128, 160, 237, 204, 219, 228, 55, 207, 164, 155, 250, 77, 24, 111, 217, 28, 160, 37, 123, 146, 10, 236,
                  6, 23, 173, 202, 14, 152, 134, 108, 215, 209, 151, 213, 160, 160, 55, 87, 191, 65, 234, 3, 59, 73, 239, 113,
                  134, 143, 229, 234, 122, 152, 215, 191, 44, 162, 226, 64, 178, 168, 152, 185, 85, 223, 146, 16, 123, 128, 128, 128,
                  128, 128, 128, 128, 128, 128, 128, 128, 128, 128, 128 >>
               :> << 87, 37, 237, 122, 207, 108, 40, 235, 67, 55, 86, 214, 121, 50, 221, 188, 100, 134, 41, 169, 3, 96, 34, 107,
                     29, 177, 141, 239, 32, 59, 241, 211 >>)
             )
            )
           )
           @@
           (
            (
             (<< 248, 81, 128, 160, 237, 204, 219, 228, 55, 207, 164, 155, 250, 77, 24, 111, 217, 28, 160, 37, 123, 146, 10, 236,
                 6, 23, 173, 202, 14, 152, 134, 108, 215, 209, 151, 213, 160, 180, 100, 126, 157, 63, 75, 21, 76, 59, 83, 175,
                 134, 99, 94, 12, 109, 25, 197, 203, 70, 3, 2, 97, 234, 177, 185, 135, 218, 84, 201, 53, 236, 128, 128, 128,
                 128, 128, 128, 128, 128, 128, 128, 128, 128, 128, 128 >>
              :> << 81, 206, 100, 182, 136, 130, 246, 88, 15, 60, 234, 116, 188, 127, 39, 76, 252, 30, 120, 135, 44, 24, 199, 155,
                    232, 32, 119, 209, 129, 65, 23, 17 >>)
             @@
             (<< 248, 81, 128, 160, 237, 204, 219, 228, 55, 207, 164, 155, 250, 77, 24, 111, 217, 28, 160, 37, 123, 146, 10, 236,
                 6, 23, 173, 202, 14, 152, 134, 108, 215, 209, 151, 213, 160, 211, 102, 187, 17, 52, 83, 109, 168, 35, 25, 170,
                 198, 86, 30, 155, 113, 162, 93, 203, 136, 140, 57, 89, 89, 24, 118, 177, 223, 169, 198, 68, 169, 128, 128, 128,
                 128, 128, 128, 128, 128, 128, 128, 128, 128, 128, 128 >>
              :> << 120, 88, 248, 226, 9, 176, 200, 187, 243, 254, 25, 254, 47, 110, 13, 128, 11, 167, 95, 3, 146, 100, 222, 193,
                    121, 111, 147, 70, 77, 211, 165, 35 >>)
            )
            @@
            (
             (<< 248, 81, 128, 160, 237, 204, 219, 228, 55, 207, 164, 155, 250, 77, 24, 111, 217, 28, 160, 37, 123, 146, 10, 236,
                 6, 23, 173, 202, 14, 152, 134, 108, 215, 209, 151, 213, 160, 219, 234, 87, 12, 189, 96, 101, 213, 252, 102, 211,
                 178, 212, 49, 240, 83, 141, 108, 45, 230, 213, 229, 98, 253, 208, 170, 185, 132, 7, 166, 10, 145, 128, 128, 128,
                 128, 128, 128, 128, 128, 128, 128, 128, 128, 128, 7 >>
              :> << 197, 25, 185, 127, 110, 160, 102, 210, 128, 69, 6, 15, 218, 218, 128, 231, 209, 233, 11, 230, 224, 135, 38, 201,
                    187, 248, 1, 14, 11, 43, 30, 55 >>)
             @@
             (
              (<< 248, 81, 128, 160, 237, 204, 219, 228, 55, 207, 164, 155, 250, 77, 24, 111, 217, 28, 160, 37, 123, 146, 10, 236,
                  6, 23, 173, 202, 14, 152, 134, 108, 215, 209, 151, 213, 160, 219, 234, 87, 12, 189, 96, 101, 213, 252, 102, 211,
                  178, 212, 49, 240, 83, 141, 108, 45, 230, 213, 229, 98, 253, 208, 170, 185, 132, 7, 166, 10, 145, 128, 128, 128,
                  128, 128, 128, 128, 128, 128, 128, 128, 128, 128, 128 >>
               :> << 119, 44, 243, 109, 148, 165, 233, 14, 227, 104, 164, 43, 233, 211, 5, 152, 248, 68, 232, 59, 8, 227, 173, 221,
                     42, 182, 3, 155, 92, 197, 224, 157 >>)
              @@
              (<< 248, 81, 128, 160, 237, 204, 219, 228, 55, 207, 164, 155, 250, 77, 24, 111, 217, 28, 160, 37, 123, 146, 10, 236,
                  6, 23, 173, 202, 14, 152, 134, 108, 215, 209, 151, 213, 160, 237, 204, 219, 228, 55, 207, 164, 155, 250, 77, 24,
                  111, 217, 28, 160, 37, 123, 146, 10, 236, 6, 23, 173, 202, 14, 152, 134, 108, 215, 209, 151, 213, 128, 128, 128,
                  128, 128, 128, 128, 128, 128, 128, 128, 128, 128, 128 >>
               :> << 63, 27, 126, 228, 3, 156, 248, 81, 206, 248, 210, 225, 195, 32, 24, 148, 26, 120, 85, 182, 227, 158, 34, 191,
                     26, 120, 218, 69, 186, 55, 122, 10 >>)
             )
            )
           )
          )
          @@
          (
           (
            (
             (<< 248, 81, 128, 160, 237, 204, 219, 228, 55, 207, 164, 155, 250, 77, 24, 111, 217, 28, 160, 37, 123, 146, 10, 236,
                 6, 23, 173, 202, 14, 152, 134, 108, 215, 209, 151, 213, 160, 249, 190, 130, 143, 214, 117, 37, 60, 46, 62, 205,
                 255, 67, 121, 222, 186, 180, 89, 243, 118, 183, 85, 79, 172, 25, 55, 71, 198, 118, 241, 15, 10, 128, 128, 128,
                 128, 128, 128, 128, 128, 128, 128, 128, 128, 128, 128 >>
              :> << 169, 192, 151, 185, 208, 111, 49, 38, 210, 100, 216, 219, 84, 203, 44, 51, 19, 30, 68, 92, 240, 211, 19, 144,
                    111, 229, 54, 11, 193, 158, 120, 18 >>)
             @@
             (<< 248, 81, 128, 160, 239, 92, 6, 52, 237, 178, 151, 175, 105, 70, 189, 182, 10, 172, 173, 62, 89, 209, 248, 195,
                 114, 198, 102, 80, 214, 5, 180, 201, 215, 3, 81, 217, 128, 128, 128, 128, 128, 128, 128, 128, 128, 128, 128, 128,
                 128, 128, 160, 170, 170, 170, 170, 170, 170, 170, 170, 170, 170, 170, 170, 170, 170, 170, 170, 170, 170, 170, 170, 170,
                 170, 170, 170, 170, 170, 170, 170, 170, 170, 170, 170 >>
              :> << 64, 58, 71, 177, 199, 45, 148, 246, 202, 165, 191, 91, 151, 247, 196, 244, 116, 103, 188, 231, 183, 1, 29, 179,
                    225, 251, 240, 234, 48, 132, 19, 250 >>)
            )
            @@
            (
             (<< 248, 81, 128, 160, 241, 239, 77, 25, 17, 147, 141, 24, 30, 234, 13, 113, 97, 228, 70, 96, 191, 81, 195, 58,
                 145, 148, 26, 139, 87, 154, 109, 55, 228, 120, 240, 243, 128, 128, 128, 128, 128, 128, 128, 128, 128, 128, 128, 128,
                 128, 128, 160, 170, 170, 170, 170, 170, 170, 170, 170, 170, 170, 170, 170, 170, 170, 170, 170, 170, 170, 170, 170, 170,
                 170, 170, 170, 170, 170, 170, 170, 170, 170, 170, 170 >>
              :> << 119, 133, 103, 168, 167, 235, 162, 245, 33, 144, 210, 48, 178, 240, 130, 64, 45, 181, 150, 209, 25, 190, 47, 184,
                    59, 175, 97, 117, 104, 194, 115, 18 >>)
             @@
             (
              (<< 248, 81, 128, 160, 242, 50, 67, 218, 202, 254, 205, 15, 37, 145, 187, 225, 179, 27, 255, 52, 30, 30, 41, 103,
                  248, 178, 220, 143, 138, 24, 6, 242, 214, 213, 131, 237, 128, 128, 128, 128, 128, 128, 128, 128, 128, 128, 128, 128,
                  128, 128, 160, 170, 170, 170, 170, 170, 170, 170, 170, 170, 170, 170, 170, 170, 170, 170, 170, 170, 170, 170, 170, 170,
                  170, 170, 170, 170, 170, 170, 170, 170, 170, 170, 170 >>
               :> << 179, 158, 204, 171, 115, 59, 129, 107, 135, 179, 67, 146, 232, 76, 10, 250, 171, 64, 16, 87, 201, 246, 45, 133,
                     233, 111, 106, 0, 51, 72, 249, 53 >>)
              @@
              (<< 248, 81, 128, 160, 242, 117, 136, 12, 33, 158, 100, 233, 87, 213, 69, 13, 210, 142, 192, 78, 101, 8, 242, 183,
                  162, 183, 195, 200, 200, 191, 66, 3, 14, 243, 248, 55, 160, 173, 100, 227, 164, 177, 4, 232, 227, 128, 186, 221,
                  104, 149, 36, 101, 82, 15, 240, 187, 119, 79, 48, 97, 250, 117, 5, 95, 195, 56, 254, 212, 94, 128, 128, 128,
                  128, 128, 128, 128, 128, 128, 128, 128, 128, 128, 128 >>
               :> << 9, 23, 254, 244, 219, 105, 57, 244, 171, 170, 144, 11, 27, 119, 14, 168, 88, 28, 226, 58, 136, 148, 132, 189,
                     194, 103, 116, 118, 191, 108, 155, 10 >>)
             )
            )
           )
           @@
           (
            (
             (<< 248, 81, 128, 160, 246, 77, 95, 42, 41, 220, 207, 184, 122, 79, 223, 210, 101, 238, 200, 138, 148, 21, 70, 4,
                 150, 204, 112, 189, 22, 157, 76, 38, 225, 249, 231, 207, 128, 128, 128, 128, 128, 128, 128, 128, 128, 128, 128, 128,
                 128, 128, 160, 170, 170, 170, 170, 170, 170, 170, 170, 170, 170, 170, 170, 170, 170, 170, 170, 170, 170, 170, 170, 170,
                 170, 170, 170, 170, 170, 170, 170, 170, 170, 170, 170 >>
              :> << 174, 144, 190, 33, 149, 60, 41, 73, 241, 50, 81, 102, 64, 25, 187, 50, 175, 207, 3, 253, 240, 6, 98, 141,
                    199, 58, 151, 207, 39, 212, 167, 21 >>)
             @@
             (<< 248, 81, 128, 160, 249, 190, 130, 143, 214, 117, 37, 60, 46, 62, 205, 255, 67, 121, 222, 186, 180, 89, 243, 118,
                 183, 85, 79, 172, 25, 55, 71, 198, 118, 241, 15, 10, 160, 237, 204, 219, 228, 55, 207, 164, 155, 250, 77, 24,
                 111, 217, 28, 160, 37, 123, 146, 10, 236, 6, 23, 173, 202, 14, 152, 134, 108, 215, 209, 151, 213, 128, 128, 128,
                 128, 128, 128, 128, 128, 128, 128, 128, 128, 128, 128 >>
              :> << 8, 244, 231, 224, 70, 11, 187, 5, 67, 238, 151, 214, 147, 117, 139, 120, 57, 147, 22, 96, 98, 200, 78, 186,
                    126, 144, 184, 166, 9, 101, 147, 186 >>)
            )
            @@
            (
             (<< 248, 81, 128, 160, 249, 190, 130, 143, 214, 117, 37, 60, 46, 62, 205, 255, 67, 121, 222, 186, 180, 89, 243, 118,
                 183, 85, 79, 172, 25, 55, 71, 198, 118, 241, 15, 10, 160, 249, 190, 130, 143, 214, 117, 37, 60, 46, 62, 205,
                 255, 67, 121, 222, 186, 180, 89, 243, 118, 183, 85, 79, 172, 25, 55, 71, 198, 118, 241, 15, 10, 128, 128, 128,
                 128, 128, 128, 128, 128, 128, 128, 128, 128, 128, 128 >>
              :> << 93, 229, 103, 118, 159, 60, 147, 111, 85, 151, 85, 195, 27, 12, 105, 125, 124, 96, 35, 121, 148, 158, 226, 49,
                    50, 196, 25, 140, 66, 239, 200, 46 >>)
             @@
             (
              (<< 248, 81, 128, 160, 252, 200, 250, 51, 178, 109, 219, 130, 17, 30, 218, 89, 16, 96, 19, 17, 215, 227, 90, 23,
                  197, 238, 130, 57, 148, 235, 13, 34, 195, 110, 185, 165, 128, 128, 128, 128, 128, 128, 128, 128, 128, 128, 128, 128,
                  128, 128, 160, 170, 170, 170, 170, 170, 170, 170, 170, 170, 170, 170, 170, 170, 170, 170, 170, 170, 170, 170, 170, 170,
                  170, 170, 170, 170, 170, 170, 170, 170, 170, 170, 170 >>
               :> << 1, 189, 157, 160, 165, 125, 95, 123, 206, 29, 82, 95, 6, 58, 243, 119, 55, 60, 251, 39, 70, 119, 20, 21,
                     4, 97, 234, 2, 4, 201, 254, 243 >>)
              @@
              (<< 248, 113, 128, 160, 1, 189, 157, 160, 165, 125, 95, 123, 206, 29, 82, 95, 6, 58, 243, 119, 55, 60, 251, 39,
                  70, 119, 20, 21, 4, 97, 234, 2, 4, 201, 254, 243, 160, 237, 204, 219, 228, 55, 207, 164, 155, 250, 77, 24,
                  111, 217, 28, 160, 37, 123, 146, 10, 236, 6, 23, 173, 202, 14, 152, 134, 108, 215, 209, 151, 213, 128, 128, 128,
                  128, 128, 128, 128, 128, 128, 128, 128, 128, 128, 160, 170, 170, 170, 170, 170, 170, 170, 170, 170, 170, 170, 170, 170,
                  170, 170, 170, 170, 170, 170, 170, 170, 170, 170, 170, 170, 170, 170, 170, 170, 170, 170, 170 >>
               :> << 59, 111, 36, 114, 191, 239, 15, 128, 249, 101, 61, 163, 68, 123, 54, 156, 7, 29, 168, 231, 184, 77, 133, 160,
                     201, 129, 71, 244, 173, 197, 77, 125 >>)
             )
            )
           )
          )
         )
         @@
         (
          (
           (
            (
             (<< 248, 113, 128, 160, 1, 189, 157, 160, 165, 125, 95, 123, 206, 29, 82, 95, 6, 58, 243, 119, 55, 60, 251, 39,
                 70, 119, 20, 21, 4, 97, 234, 2, 4, 201, 254, 243, 160, 249, 190, 130, 143, 214, 117, 37, 60, 46, 62, 205,
                 255, 67, 121, 222, 186, 180, 89, 243, 118, 183, 85, 79, 172, 25, 55, 71, 198, 118, 241, 15, 10, 128, 128, 128,
                 128, 128, 128, 128, 128, 128, 128, 128, 128, 128, 160, 170, 170, 170, 170, 170, 170, 170, 170, 170, 170, 170, 170, 170,
                 170, 170, 170, 170, 170, 170, 170, 170, 170, 170, 170, 170, 170, 170, 170, 170, 170, 170, 170 >>
              :> << 225, 16, 173, 64, 34, 213, 42, 16, 78, 161, 95, 100, 238, 6, 56, 116, 17, 6, 249, 204, 207, 135, 182, 232,
                    142, 227, 87, 116, 191, 126, 254, 16 >>)
             @@
             (<< 248, 113, 128, 160, 15, 210, 121, 87, 19, 39, 9, 66, 180, 2, 58, 251, 48, 178, 87, 132, 197, 136, 32, 191,
                 237, 14, 224, 49, 250, 1, 163, 166, 100, 35, 60, 19, 160, 15, 210, 121, 87, 19, 39, 9, 66, 180, 2, 58,
                 251, 48, 178, 87, 132, 197, 136, 32, 191, 237, 14, 224, 49, 250, 1, 163, 166, 100, 35, 60, 19, 128, 128, 128,
                 128, 128, 128, 128, 128, 128, 128, 128, 128, 128, 160, 170, 170, 170, 170, 170, 170, 170, 170, 170, 170, 170, 170, 170,
                 170, 170, 170, 170, 170, 170, 170, 170, 170, 170, 170, 170, 170, 170, 170, 170, 170, 170, 170 >>
              :> << 176, 206, 78, 12, 29, 241, 223, 130, 22, 143, 200, 10, 215, 70, 37, 163, 102, 186, 83, 195, 1, 128, 1, 240,
                    76, 136, 165, 227, 61, 119, 79, 46 >>)
            )
            @@
            (
             (<< 248, 113, 128, 160, 15, 210, 121, 87, 19, 39, 9, 66, 180, 2, 58, 251, 48, 178, 87, 132, 197, 136, 32, 191,
                 237, 14, 224, 49, 250, 1, 163, 166, 100, 35, 60, 19, 160, 101, 217, 52, 11, 204, 251, 208, 88, 44, 75, 121,
                 112, 138, 247, 197, 140, 203, 240, 115, 227, 95, 29, 158, 162, 86, 151, 40, 37, 213, 155, 5, 240, 128, 128, 128,
                 128, 128, 128, 128, 128, 128, 128, 128, 128, 128, 160, 170, 170, 170, 170, 170, 170, 170, 170, 170, 170, 170, 170, 170,
                 170, 170, 170, 170, 170, 170, 170, 170, 170, 170, 170, 170, 170, 170, 170, 170, 170, 170, 170 >>
              :> << 126, 107, 39, 105, 88, 205, 179, 157, 232, 0, 122, 137, 192, 253, 147, 172, 28, 211, 43, 8, 83, 140, 229, 133,
                    223, 22, 68, 164, 159, 190, 133, 8 >>)
             @@
             (
              (<< 248, 113, 128, 160, 15, 210, 121, 87, 19, 39, 9, 66, 180, 2, 58, 251, 48, 178, 87, 132, 197, 136, 32, 191,
                  237, 14, 224, 49, 250, 1, 163, 166, 100, 35, 60, 19, 160, 110, 20, 40, 238, 143, 128, 161, 48, 58, 182, 18,
                  178, 137, 253, 43, 150, 192, 237, 23, 37, 54, 122, 88, 220, 106, 174, 194, 164, 72, 96, 66, 208, 128, 128, 128,
                  128, 128, 128, 128, 128, 128, 128, 128, 128, 128, 160, 170, 170, 170, 170, 170, 170, 170, 170, 170, 170, 170, 170, 170,
                  170, 170, 170, 170, 170, 170, 170, 170, 170, 170, 170, 170, 170, 170, 170, 170, 170, 170, 170 >>
               :> << 61, 165, 187, 68, 22, 169, 188, 185, 45, 65, 38, 55, 106, 100, 164, 85, 122, 38, 48, 114, 238, 230, 253, 104,
                     121, 96, 9, 138, 103, 107, 234, 78 >>)
              @@
              (<< 248, 113, 128, 160, 15, 210, 121, 87, 19, 39, 9, 66, 180, 2, 58, 251, 48, 178, 87, 132, 197, 136, 32, 191,
                  237, 14, 224, 49, 250, 1, 163, 166, 100, 35, 60, 19, 160, 133, 91, 225, 140, 224, 190, 115, 161, 244, 36, 216,
                  39, 113, 18, 199, 76, 17, 0, 183, 62, 123, 60, 41, 253, 46, 190, 54, 18, 35, 66, 204, 74, 128, 128, 128,
                  128, 128, 128, 128, 128, 128, 128, 128, 128, 128, 160, 170, 170, 170, 170, 170, 170, 170, 170, 170, 170, 170, 170, 170,
                  170, 170, 170, 170, 170, 170, 170, 170, 170, 170, 170, 170, 170, 170, 170, 170, 170, 170, 170 >>
               :> << 59, 68, 241, 230, 239, 19, 83, 26, 60, 187, 214, 228, 190, 96, 76, 168, 125, 7, 152, 157, 160, 247, 255, 215,
                     203, 23, 71, 239, 24, 63, 26, 176 >>)
             )
            )
           )
           @@
           (
            (
             (<< 248, 113, 128, 160, 15, 210, 121, 87, 19, 39, 9, 66, 180, 2, 58, 251, 48, 178, 87, 132, 197, 136, 32, 191,
                 237, 14, 224, 49, 250, 1, 163, 166, 100, 35, 60, 19, 160, 160, 55, 87, 191, 65, 234, 3, 59, 73, 239, 113,
                 134, 143, 229, 234, 122, 152, 215, 191, 44, 162, 226, 64, 178, 168, 152, 185, 85, 223, 146, 16, 123, 128, 128, 128,
                 128, 128, 128, 128, 128, 128, 128, 128, 128, 128, 160, 170, 170, 170, 170, 170, 170, 170, 170, 170, 170, 170, 170, 170,
                 170, 170, 170, 170, 170, 170, 170, 170, 170, 170, 170, 170, 170, 170, 170, 170, 170, 170, 170 >>
              :> << 168, 94, 142, 13, 242, 191, 59, 146, 168, 201, 178, 75, 104, 251, 146, 24, 38, 162, 230, 97, 123, 121, 244, 144,
                    171, 122, 248, 2, 47, 232, 173, 73 >>)
             @@
             (<< 248, 113, 128, 160, 15, 210, 121, 87, 19, 39, 9, 66, 180, 2, 58, 251, 48, 178, 87, 132, 197, 136, 32, 191,
                 237, 14, 224, 49, 250, 1, 163, 166, 100, 35, 60, 19, 160, 211, 102, 187, 17, 52, 83, 109, 168, 35, 25, 170,
                 198, 86, 30, 155, 113, 162, 93, 203, 136, 140, 57, 89, 89, 24, 118, 177, 223, 169, 198, 68, 169, 128, 128, 128,
                 128, 128, 128, 128, 128, 128, 128, 128, 128, 128, 160, 170, 170, 170, 170, 170, 170, 170, 170, 170, 170, 170, 170, 170,
                 170, 170, 170, 170, 170, 170, 170, 170, 170, 170, 170, 170, 170, 170, 170, 170, 170, 170, 170 >>
              :> << 17, 183, 9, 24, 94, 253, 240, 130, 166, 53, 85, 160, 104, 251, 53, 252, 1, 232, 177, 93, 84, 48, 211, 69,
                    184, 109, 43, 132, 225, 230, 25, 174 >>)
            )
            @@
            (
             (<< 248, 113, 128, 160, 15, 210, 121, 87, 19, 39, 9, 66, 180, 2, 58, 251, 48, 178, 87, 132, 197, 136, 32, 191,
                 237, 14, 224, 49, 250, 1, 163, 166, 100, 35, 60, 19, 160, 219, 234, 87, 12, 189, 96, 101, 213, 252, 102, 211,
                 178, 212, 49, 240, 83, 141, 108, 45, 230, 213, 229, 98, 253, 208, 170, 185, 132, 7, 166, 10, 145, 128, 128, 128,
                 128, 128, 128, 128, 128, 128, 128, 128, 128, 128, 160, 170, 170, 170, 170, 170, 170, 170, 170, 170, 170, 170, 170, 170,
                 170, 170, 170, 170, 170, 170, 170, 170, 170, 170, 170, 170, 170, 170, 170, 170, 170, 170, 170 >>
              :> << 127, 213, 221, 219, 234, 60, 120, 165, 114, 209, 147, 216, 107, 174, 155, 58, 51, 51, 176, 248, 166, 103, 181, 188,
                    29, 215, 248, 71, 72, 23, 75, 210 >>)
             @@
             (
              (<< 248, 113, 128, 160, 15, 210, 121, 87, 19, 39, 9, 66, 180, 2, 58, 251, 48, 178, 87, 132, 197, 136, 32, 191,
                  237, 14, 224, 49, 250, 1, 163, 166, 100, 35, 60, 19, 160, 237, 204, 219, 228, 55, 207, 164, 155, 250, 77, 24,
                  111, 217, 28, 160, 37, 123, 146, 10, 236, 6, 23, 173, 202, 14, 152, 134, 108, 215, 209, 151, 213, 128, 128, 128,
                  128, 128, 128, 128, 128, 128, 128, 128, 128, 128, 160, 170, 170, 170, 170, 170, 170, 170, 170, 170, 170, 170, 170, 170,
                  170, 170, 170, 170, 170, 170, 170, 170, 170, 170, 170, 170, 170, 170, 170, 170, 170, 170, 170 >>
               :> << 37, 201, 240, 133, 230, 71, 191, 70, 222, 136, 196, 160, 138, 238, 166, 141, 244, 121, 240, 242, 128, 95, 18, 238,
                     31, 245, 152, 84, 245, 246, 137, 2 >>)
              @@
              (<< 248, 113, 128, 160, 101, 217, 52, 11, 204, 251, 208, 88, 44, 75, 121, 112, 138, 247, 197, 140, 203, 240, 115, 227,
                  95, 29, 158, 162, 86, 151, 40, 37, 213, 155, 5, 240, 160, 15, 210, 121, 87, 19, 39, 9, 66, 180, 2, 58,
                  251, 48, 178, 87, 132, 197, 136, 32, 191, 237, 14, 224, 49, 250, 1, 163, 166, 100, 35, 60, 19, 128, 128, 128,
                  128, 128, 128, 128, 128, 128, 128, 128, 128, 128, 160, 170, 170, 170, 170, 170, 170, 170, 170, 170, 170, 170, 170, 170,
                  170, 170, 170, 170, 170, 170, 170, 170, 170, 170, 170, 170, 170, 170, 170, 170, 170, 170, 170 >>
               :> << 75, 225, 233, 124, 199, 69, 95, 199, 38, 194, 93, 36, 85, 21, 92, 170, 252, 122, 9, 73, 125, 4, 201, 201,
                     178, 136, 155, 199, 212, 122, 241, 27 >>)
             )
            )
           )
          )
          @@
          (
           (
            (
             (<< 248, 113, 128, 160, 101, 217, 52, 11, 204, 251, 208, 88, 44, 75, 121, 112, 138, 247, 197, 140, 203, 240, 115, 227,
                 95, 29, 158, 162, 86, 151, 40, 37, 213, 155, 5, 240, 160, 101, 217, 52, 11, 204, 251, 208, 88, 44, 75, 121,
                 112, 138, 247, 197, 140, 203, 240, 115, 227, 95, 29, 158, 162, 86, 151, 40, 37, 213, 155, 5, 240, 128, 128, 128,
                 128, 128, 128, 128, 128, 128, 128, 128, 128, 128, 160, 170, 170, 170, 170, 170, 170, 170, 170, 170, 170, 170, 170, 170,
                 170, 170, 170, 170, 170, 170, 170, 170, 170, 170, 170, 170, 170, 170, 170, 170, 170, 170, 170 >>
              :> << 233, 239, 138, 178, 200, 169, 147, 216, 52, 114, 196, 85, 117, 209, 50, 16, 3, 127, 27, 74, 237, 151, 57, 88,
                    118, 57, 251, 96, 211, 98, 145, 237 >>)
             @@
             (<< 248, 113, 128, 160, 101, 217, 52, 11, 204, 251, 208, 88, 44, 75, 121, 112, 138, 247, 197, 140, 203, 240, 115, 227,
                 95, 29, 158, 162, 86, 151, 40, 37, 213, 155, 5, 240, 160, 110, 20, 40, 238, 143, 128, 161, 48, 58, 182, 18,
                 178, 137, 253, 43, 150, 192, 237, 23, 37, 54, 122, 88, 220, 106, 174, 194, 164, 72, 96, 66, 208, 128, 128, 128,
                 128, 128, 128, 128, 128, 128, 128, 128, 128, 128, 160, 170, 170, 170, 170, 170, 170, 170, 170, 170, 170, 170, 170, 170,
                 170, 170, 170, 170, 170, 170, 170, 170, 170, 170, 170, 170, 170, 170, 170, 170, 170, 170, 170 >>
              :> << 243, 87, 234, 95, 196, 253, 89, 183, 81, 176, 25, 190, 171, 94, 236, 244, 62, 242, 103, 15, 168, 100, 213, 52,
                    194, 213, 66, 102, 121, 203, 12, 205 >>)
            )
            @@
            (
             (<< 248, 113, 128, 160, 101, 217, 52, 11, 204, 251, 208, 88, 44, 75, 121, 112, 138, 247, 197, 140, 203, 240, 115, 227,
                 95, 29, 158, 162, 86, 151, 40, 37, 213, 155, 5, 240, 160, 133, 91, 225, 140, 224, 190, 115, 161, 244, 36, 216,
                 39, 113, 18, 199, 76, 17, 0, 183, 62, 123, 60, 41, 253, 46, 190, 54, 18, 35, 66, 204, 74, 128, 128, 128,
                 128, 128, 128, 128, 128, 128, 128, 128, 128, 128, 160, 170, 170, 170, 170, 170, 170, 170, 170, 170, 170, 170, 170, 170,
                 170, 170, 170, 170, 170, 170, 170, 170, 170, 170, 170, 170, 170, 170, 170, 170, 170, 170, 170 >>
              :> << 137, 131, 128, 170, 166, 213, 238, 164, 68, 119, 202, 37, 153, 40, 220, 11, 248, 207, 14, 196, 18, 142, 186, 15,
                    35, 227, 32, 60, 44, 55, 242, 236 >>)
             @@
             (
              (<< 248, 113, 128, 160, 101, 217, 52, 11, 204, 251, 208, 88, 44, 75, 121, 112, 138, 247, 197, 140, 203, 240, 115, 227,
                  95, 29, 158, 162, 86, 151, 40, 37, 213, 155, 5, 240, 160, 160, 55, 87, 191, 65, 234, 3, 59, 73, 239, 113,
                  134, 143, 229, 234, 122, 152, 215, 191, 44, 162, 226, 64, 178, 168, 152, 185, 85, 223, 146, 16, 123, 128, 128, 128,
                  128, 128, 128, 128, 128, 128, 128, 128, 128, 128, 160, 170, 170, 170, 170, 170, 170, 170, 170, 170, 170, 170, 170, 170,
                  170, 170, 170, 170, 170, 170, 170, 170, 170, 170, 170, 170, 170, 170, 170, 170, 170, 170, 170 >>
               :> << 236, 54, 86, 42, 91, 210, 48, 156, 197, 109, 188, 98, 215, 121, 87, 62, 9, 92, 134, 53, 183, 157, 181, 7,
                     18, 157, 52, 122, 248, 222, 162, 84 >>)
              @@
              (<< 248, 113, 128, 160, 101, 217, 52, 11, 204, 251, 208, 88, 44, 75, 121, 112, 138, 247, 197, 140, 203, 240, 115, 227,
                  95, 29, 158, 162, 86, 151, 40, 37, 213, 155, 5, 240, 160, 211, 102, 187, 17, 52, 83, 109, 168, 35, 25, 170,
                  198, 86, 30, 155, 113, 162, 93, 203, 136, 140, 57, 89, 89, 24, 118, 177, 223, 169, 198, 68, 169, 128, 128, 128,
                  128, 128, 128, 128, 128, 128, 128, 128, 128, 128, 160, 170, 170, 170, 170, 170, 170, 170, 170, 170, 170, 170, 170, 170,
                  170, 170, 170, 170, 170, 170, 170, 170, 170, 170, 170, 170, 170, 170, 170, 170, 170, 170, 170 >>
               :> << 242, 109, 129, 36, 105, 197, 249, 27, 220, 58, 187, 32, 121, 221, 61, 42, 175, 247, 12, 220, 33, 214, 127, 152,
                     170, 91, 125, 38, 115, 67, 188, 235 >>)
             )
            )
           )
           @@
           (
            (
             (<< 248, 113, 128, 160, 101, 217, 52, 11, 204, 251, 208, 88, 44, 75, 121, 112, 138, 247, 197, 140, 203, 240, 115, 227,
                 95, 29, 158, 162, 86, 151, 40, 37, 213, 155, 5, 240, 160, 219, 234, 87, 12, 189, 96, 101, 213, 252, 102, 211,
                 178, 212, 49, 240, 83, 141, 108, 45, 230, 213, 229, 98, 253, 208, 170, 185, 132, 7, 166, 10, 145, 128, 128, 128,
                 128, 128, 128, 128, 128, 128, 128, 128, 128, 128, 160, 170, 170, 170, 170, 170, 170, 170, 170, 170, 170, 170, 170, 170,
                 170, 170, 170, 170, 170, 170, 170, 170, 170, 170, 170, 170, 170, 170, 170, 170, 170, 170, 170 >>
              :> << 61, 3, 69, 147, 81, 194, 52, 232, 21, 28, 61, 100, 206, 108, 17, 234, 253, 129, 91, 113, 199, 127, 71, 9,
                    166, 103, 194, 146, 105, 149, 232, 114 >>)
             @@
             (<< 248, 113, 128, 160, 101, 217, 52, 11, 204, 251, 208, 88, 44, 75, 121, 112, 138, 247, 197, 140, 203, 240, 115, 227,
                 95, 29, 158, 162, 86, 151, 40, 37, 213, 155, 5, 240, 160, 237, 204, 219, 228, 55, 207, 164, 155, 250, 77, 24,
                 111, 217, 28, 160, 37, 123, 146, 10, 236, 6, 23, 173, 202, 14, 152, 134, 108, 215, 209, 151, 213, 128, 128, 128,
                 128, 128, 128, 128, 128, 128, 128, 128, 128, 128, 160, 170, 170, 170, 170, 170, 170, 170, 170, 170, 170, 170, 170, 170,
                 170, 170, 170, 170, 170, 170, 170, 170, 170, 170, 170, 170, 170, 170, 170, 170, 170, 170, 170 >>
              :> << 145, 175, 65, 213, 229, 46, 192, 3, 5, 72, 122, 211, 190, 48, 123, 45, 202, 28, 215, 58, 34, 35, 73, 154,
                    150, 216, 1, 46, 202, 34, 50, 194 >>)
            )
            @@
            (
             (<< 248, 113, 128, 160, 110, 20, 40, 238, 143, 128, 161, 48, 58, 182, 18, 178, 137, 253, 43, 150, 192, 237, 23, 37,
                 54, 122, 88, 220, 106, 174, 194, 164, 72, 96, 66, 208, 160, 15, 210, 121, 87, 19, 39, 9, 66, 180, 2, 58,
                 251, 48, 178, 87, 132, 197, 136, 32, 191, 237, 14, 224, 49, 250, 1, 163, 166, 100, 35, 60, 19, 128, 128, 128,
                 128, 128, 128, 128, 128, 128, 128, 128, 128, 128, 160, 170, 170, 170, 170, 170, 170, 170, 170, 170, 170, 170, 170, 170,
                 170, 170, 170, 170, 170, 170, 170, 170, 170, 170, 170, 170, 170, 170, 170, 170, 170, 170, 170 >>
              :> << 183, 221, 67, 220, 220, 98, 75, 225, 135, 89, 157, 91, 83, 198, 64, 119, 182, 243, 101, 170, 56, 242, 141, 159,
                    206, 191, 68, 109, 213, 15, 166, 135 >>)
             @@
             (
              (<< 248, 113, 128, 160, 110, 20, 40, 238, 143, 128, 161, 48, 58, 182, 18, 178, 137, 253, 43, 150, 192, 237, 23, 37,
                  54, 122, 88, 220, 106, 174, 194, 164, 72, 96, 66, 208, 160, 88, 229, 152, 11, 171, 205, 76, 6, 151, 0, 132,
                  63, 158, 59, 25, 97, 35, 48, 135, 27, 208, 85, 193, 111, 231, 242, 142, 9, 140, 108, 232, 148, 128, 128, 128,
                  128, 128, 128, 128, 128, 128, 128, 128, 128, 128, 160, 170, 170, 170, 170, 170, 170, 170, 170, 170, 170, 170, 170, 170,
                  170, 170, 170, 170, 170, 170, 170, 170, 170, 170, 170, 170, 170, 170, 170, 170, 170, 170, 170 >>
               :> << 65, 52, 45, 229, 47, 190, 233, 153, 184, 150, 160, 165, 30, 60, 178, 226, 43, 25, 246, 201, 141, 178, 186, 19,
                     48, 70, 40, 15, 52, 227, 210, 163 >>)
              @@
              (<< 248, 113, 128, 160, 110, 20, 40, 238, 143, 128, 161, 48, 58, 182, 18, 178, 137, 253, 43, 150, 192, 237, 23, 37,
                  54, 122, 88, 220, 106, 174, 194, 164, 72, 96, 66, 208, 160, 98, 73, 234, 54, 131, 64, 1, 163, 57, 155, 97,
                  224, 8, 50, 79, 206, 164, 65, 7, 64, 29, 174, 94, 33, 246, 138, 173, 89, 184, 182, 45, 143, 128, 128, 128,
                  128, 128, 128, 128, 128, 128, 128, 128, 128, 128, 160, 170, 170, 170, 170, 170, 170, 170, 170, 170, 170, 170, 170, 170,
                  170, 170, 170, 170, 170, 170, 170, 170, 170, 170, 170, 170, 170, 170, 170, 170, 170, 170, 170 >>
               :> << 47, 180, 80, 209, 12, 5, 213, 2, 73, 111, 242, 212, 4, 131, 67, 157, 72, 173, 229, 191, 202, 253, 187, 55,
                     195, 202, 154, 238, 189, 223, 216, 159 >>)
             )
            )
           )
          )
         )
        )
        @@
        (
         (
          (
           (
            (
             (<< 248, 113, 128, 160, 110, 20, 40, 238, 143, 128, 161, 48, 58, 182, 18, 178, 137, 253, 43, 150, 192, 237, 23, 37,
                 54, 122, 88, 220, 106, 174, 194, 164, 72, 96, 66, 208, 160, 101, 217, 52, 11, 204, 251, 208, 88, 44, 75, 121,
                 112, 138, 247, 197, 140, 203, 240, 115, 227, 95, 29, 158, 162, 86, 151, 40, 37, 213, 155, 5, 240, 128, 128, 128,
                 128, 128, 128, 128, 128, 128, 128, 128, 128, 128, 160, 170, 170, 170, 170, 170, 170, 170, 170, 170, 170, 170, 170, 170,
                 170, 170, 170, 170, 170, 170, 170, 170, 170, 170, 170, 170, 170, 170, 170, 170, 170, 170, 170 >>
              :> << 178, 16, 168, 168, 184, 36, 10, 101, 48, 13, 232, 41, 46, 152, 125, 50, 188, 183, 41, 89, 53, 233, 137, 236,
                    149, 245, 27, 131, 181, 37, 250, 204 >>)
             @@
             (<< 248, 113, 128, 160, 110, 20, 40, 238, 143, 128, 161, 48, 58, 182, 18, 178, 137, 253, 43, 150, 192, 237, 23, 37,
                 54, 122, 88, 220, 106, 174, 194, 164, 72, 96, 66, 208, 160, 160, 55, 87, 191, 65, 234, 3, 59, 73, 239, 113,
                 134, 143, 229, 234, 122, 152, 215, 191, 44, 162, 226, 64, 178, 168, 152, 185, 85, 223, 146, 16, 123, 128, 128, 128,
                 128, 128, 128, 128, 128, 128, 128, 128, 128, 128, 160, 170, 170, 170, 170, 170, 170, 170, 170, 170, 170, 170, 170, 170,
                 170, 170, 170, 170, 170, 170, 170, 170, 170, 170, 170, 170, 170, 170, 170, 170, 170, 170, 170 >>
              :> << 234, 156, 41, 65, 76, 12, 7, 189, 20, 109, 78, 91, 75, 167, 139, 26, 152, 182, 180, 90, 134, 87, 206, 193,
                    224, 115, 199, 212, 57, 191, 38, 4 >>)
            )
            @@
            (
             (<< 248, 113, 128, 160, 110, 20, 40, 238, 143, 128, 161, 48, 58, 182, 18, 178, 137, 253, 43, 150, 192, 237, 23, 37,
                 54, 122, 88, 220, 106, 174, 194, 164, 72, 96, 66, 208, 160, 180, 100, 126, 157, 63, 75, 21, 76, 59, 83, 175,
                 134, 99, 94, 12, 109, 25, 197, 203, 70, 3, 2, 97, 234, 177, 185, 135, 218, 84, 201, 53, 236, 128, 128, 128,
                 128, 128, 128, 128, 128, 128, 128, 128, 128, 128, 160, 170, 170, 170, 170, 170, 170, 170, 170, 170, 170, 170, 170, 170,
                 170, 170, 170, 170, 170, 170, 170, 170, 170, 170, 170, 170, 170, 170, 170, 170, 170, 170, 170 >>
              :> << 160, 108, 184, 229, 59, 20, 119, 27, 145, 241, 30, 190, 182, 50, 94, 246, 225, 99, 113, 180, 2, 145, 71, 73,
                    25, 172, 39, 91, 199, 153, 8, 180 >>)
             @@
             (
              (<< 248, 113, 128, 160, 110, 20, 40, 238, 143, 128, 161, 48, 58, 182, 18, 178, 137, 253, 43, 150, 192, 237, 23, 37,
                  54, 122, 88, 220, 106, 174, 194, 164, 72, 96, 66, 208, 160, 219, 234, 87, 12, 189, 96, 101, 213, 252, 102, 211,
                  178, 212, 49, 240, 83, 141, 108, 45, 230, 213, 229, 98, 253, 208, 170, 185, 132, 7, 166, 10, 145, 128, 128, 128,
                  128, 128, 128, 128, 128, 128, 128, 128, 128, 128, 160, 170, 170, 170, 170, 170, 170, 170, 170, 170, 170, 170, 170, 170,
                  170, 170, 170, 170, 170, 170, 170, 170, 170, 170, 170, 170, 170, 170, 170, 170, 170, 170, 170 >>
               :> << 201, 58, 120, 248, 45, 249, 215, 169, 49, 158, 190, 119, 200, 152, 153, 145, 95, 81, 220, 88, 195, 21, 215, 191,
                     125, 5, 224, 179, 251, 222, 39, 186 >>)
              @@
              (<< 248, 113, 128, 160, 121, 124, 107, 41, 28, 38, 158, 50, 23, 21, 102, 151, 169, 130, 35, 81, 111, 128, 26, 154,
                  40, 153, 53, 31, 139, 203, 208, 144, 18, 82, 72, 118, 160, 237, 204, 219, 228, 55, 207, 164, 155, 250, 77, 24,
                  111, 217, 28, 160, 37, 123, 146, 10, 236, 6, 23, 173, 202, 14, 152, 134, 108, 215, 209, 151, 213, 128, 128, 128,
                  128, 128, 128, 128, 128, 128, 128, 128, 128, 128, 160, 170, 170, 170, 170, 170, 170, 170, 170, 170, 170, 170, 170, 170,
                  170, 170, 170, 170, 170, 170, 170, 170, 170, 170, 170, 170, 170, 170, 170, 170, 170, 170, 170 >>
               :> << 163, 251, 36, 141, 197, 208, 97, 102, 1, 138, 213, 6, 28, 32, 221, 172, 184, 231, 238, 7, 229, 173, 40, 112,
                     212, 247, 233, 76, 47, 3, 255, 43 >>)
             )
            )
           )
           @@
           (
            (
             (<< 248, 113, 128, 160, 121, 124, 107, 41, 28, 38, 158, 50, 23, 21, 102, 151, 169, 130, 35, 81, 111, 128, 26, 154,
                 40, 153, 53, 31, 139, 203, 208, 144, 18, 82, 72, 118, 160, 249, 190, 130, 143, 214, 117, 37, 60, 46, 62, 205,
                 255, 67, 121, 222, 186, 180, 89, 243, 118, 183, 85, 79, 172, 25, 55, 71, 198, 118, 241, 15, 10, 128, 128, 128,
                 128, 128, 128, 128, 128, 128, 128, 128, 128, 128, 160, 170, 170, 170, 170, 170, 170, 170, 170, 170, 170, 170, 170, 170,
                 170, 170, 170, 170, 170, 170, 170, 170, 170, 170, 170, 170, 170, 170, 170, 170, 170, 170, 170 >>
              :> << 254, 70, 137, 225, 2, 153, 154, 63, 205, 48, 185, 134, 240, 52, 8, 25, 65, 242, 131, 198, 115, 10, 4, 87,
                    194, 28, 167, 119, 225, 103, 193, 44 >>)
             @@
             (<< 248, 113, 128, 160, 133, 91, 225, 140, 224, 190, 115, 161, 244, 36, 216, 39, 113, 18, 199, 76, 17, 0, 183, 62,
                 123, 60, 41, 253, 46, 190, 54, 18, 35, 66, 204, 74, 160, 15, 210, 121, 87, 19, 39, 9, 66, 180, 2, 58,
                 251, 48, 178, 87, 132, 197, 136, 32, 191, 237, 14, 224, 49, 250, 1, 163, 166, 100, 35, 60, 19, 128, 128, 128,
                 128, 128, 128, 128, 128, 128, 128, 128, 128, 128, 160, 170, 170, 170, 170, 170, 170, 170, 170, 170, 170, 170, 170, 170,
                 170, 170, 170, 170, 170, 170, 170, 170, 170, 170, 170, 170, 170, 170, 170, 170, 170, 170, 170 >>
              :> << 32, 165, 39, 70, 154, 114, 63, 60, 50, 157, 21, 119, 193, 90, 15, 67, 63, 188, 155, 70, 162, 217, 227, 117,
                    201, 255, 62, 143, 82, 58, 103, 172 >>)
            )
            @@
            (
             (<< 248, 113, 128, 160, 133, 91, 225, 140, 224, 190, 115, 161, 244, 36, 216, 39, 113, 18, 199, 76, 17, 0, 183, 62,
                 123, 60, 41, 253, 46, 190, 54, 18, 35, 66, 204, 74, 160, 101, 217, 52, 11, 204, 251, 208, 88, 44, 75, 121,
                 112, 138, 247, 197, 140, 203, 240, 115, 227, 95, 29, 158, 162, 86, 151, 40, 37, 213, 155, 5, 240, 128, 128, 128,
                 128, 128, 128, 128, 128, 128, 128, 128, 128, 128, 160, 170, 170, 170, 170, 170, 170, 170, 170, 170, 170, 170, 170, 170,
                 170, 170, 170, 170, 170, 170, 170, 170, 170, 170, 170, 170, 170, 170, 170, 170, 170, 170, 170 >>
              :> << 129, 195, 4, 91, 51, 32, 32, 136, 14, 197, 179, 49, 242, 215, 222, 250, 252, 50, 29, 37, 172, 206, 43, 83,
                    86, 172, 101, 146, 85, 5, 120, 184 >>)
             @@
             (
              (<< 248, 113, 128, 160, 133, 91, 225, 140, 224, 190, 115, 161, 244, 36, 216, 39, 113, 18, 199, 76, 17, 0, 183, 62,
                  123, 60, 41, 253, 46, 190, 54, 18, 35, 66, 204, 74, 160, 160, 55, 87, 191, 65, 234, 3, 59, 73, 239, 113,
                  134, 143, 229, 234, 122, 152, 215, 191, 44, 162, 226, 64, 178, 168, 152, 185, 85, 223, 146, 16, 123, 128, 128, 128,
                  128, 128, 128, 128, 128, 128, 128, 128, 128, 128, 160, 170, 170, 170, 170, 170, 170, 170, 170, 170, 170, 170, 170, 170,
                  170, 170, 170, 170, 170, 170, 170, 170, 170, 170, 170, 170, 170, 170, 170, 170, 170, 170, 170 >>
               :> << 67, 54, 249, 157, 158, 138, 109, 220, 219, 5, 182, 87, 63, 119, 250, 175, 158, 229, 25, 178, 69, 248, 181, 90,
                     111, 187, 76, 80, 11, 223, 24, 76 >>)
              @@
              (<< 248, 113, 128, 160, 133, 91, 225, 140, 224, 190, 115, 161, 244, 36, 216, 39, 113, 18, 199, 76, 17, 0, 183, 62,
                  123, 60, 41, 253, 46, 190, 54, 18, 35, 66, 204, 74, 160, 219, 234, 87, 12, 189, 96, 101, 213, 252, 102, 211,
                  178, 212, 49, 240, 83, 141, 108, 45, 230, 213, 229, 98, 253, 208, 170, 185, 132, 7, 166, 10, 145, 128, 128, 128,
                  128, 128, 128, 128, 128, 128, 128, 128, 128, 128, 160, 170, 170, 170, 170, 170, 170, 170, 170, 170, 170, 170, 170, 170,
                  170, 170, 170, 170, 170, 170, 170, 170, 170, 170, 170, 170, 170, 170, 170, 170, 170, 170, 170 >>
               :> << 8, 7, 6, 50, 182, 143, 15, 151, 7, 130, 169, 29, 133, 120, 40, 19, 105, 86, 243, 48, 93, 2, 110, 74,
                     182, 197, 90, 221, 225, 107, 85, 240 >>)
             )
            )
           )
          )
          @@
          (
           (
            (
             (<< 248, 113, 128, 160, 136, 249, 180, 218, 37, 94, 62, 145, 141, 125, 123, 177, 163, 177, 16, 211, 181, 24, 141, 116,
                 25, 251, 68, 73, 39, 141, 142, 23, 152, 65, 159, 82, 160, 237, 204, 219, 228, 55, 207, 164, 155, 250, 77, 24,
                 111, 217, 28, 160, 37, 123, 146, 10, 236, 6, 23, 173, 202, 14, 152, 134, 108, 215, 209, 151, 213, 128, 128, 128,
                 128, 128, 128, 128, 128, 128, 128, 128, 128, 128, 160, 170, 170, 170, 170, 170, 170, 170, 170, 170, 170, 170, 170, 170,
                 170, 170, 170, 170, 170, 170, 170, 170, 170, 170, 170, 170, 170, 170, 170, 170, 170, 170, 170 >>
              :> << 141, 20, 209, 2, 43, 10, 237, 5, 211, 150, 166, 214, 181, 229, 230, 76, 41, 232, 163, 15, 23, 28, 2, 227,
                    76, 118, 20, 119, 238, 157, 227, 222 >>)
             @@
             (<< 248, 113, 128, 160, 136, 249, 180, 218, 37, 94, 62, 145, 141, 125, 123, 177, 163, 177, 16, 211, 181, 24, 141, 116,
                 25, 251, 68, 73, 39, 141, 142, 23, 152, 65, 159, 82, 160, 249, 190, 130, 143, 214, 117, 37, 60, 46, 62, 205,
                 255, 67, 121, 222, 186, 180, 89, 243, 118, 183, 85, 79, 172, 25, 55, 71, 198, 118, 241, 15, 10, 128, 128, 128,
                 128, 128, 128, 128, 128, 128, 128, 128, 128, 128, 160, 170, 170, 170, 170, 170, 170, 170, 170, 170, 170, 170, 170, 170,
                 170, 170, 170, 170, 170, 170, 170, 170, 170, 170, 170, 170, 170, 170, 170, 170, 170, 170, 170 >>
              :> << 77, 3, 133, 35, 175, 127, 194, 226, 90, 74, 159, 6, 137, 92, 85, 12, 130, 226, 45, 184, 99, 3, 254, 70,
                    24, 221, 228, 209, 146, 43, 20, 223 >>)
            )
            @@
            (
             (<< 248, 113, 128, 160, 160, 55, 87, 191, 65, 234, 3, 59, 73, 239, 113, 134, 143, 229, 234, 122, 152, 215, 191, 44,
                 162, 226, 64, 178, 168, 152, 185, 85, 223, 146, 16, 123, 160, 15, 210, 121, 87, 19, 39, 9, 66, 180, 2, 58,
                 251, 48, 178, 87, 132, 197, 136, 32, 191, 237, 14, 224, 49, 250, 1, 163, 166, 100, 35, 60, 19, 128, 128, 128,
                 128, 128, 128, 128, 128, 128, 128, 128, 128, 128, 160, 170, 170, 170, 170, 170, 170, 170, 170, 170, 170, 170, 170, 170,
                 170, 170, 170, 170, 170, 170, 170, 170, 170, 170, 170, 170, 170, 170, 170, 170, 170, 170, 170 >>
              :> << 87, 226, 63, 120, 108, 132, 126, 164, 119, 140, 234, 4, 34, 109, 115, 104, 167, 45, 48, 113, 161, 152, 165, 187,
                    228, 195, 36, 46, 212, 40, 168, 184 >>)
             @@
             (
              (<< 248, 113, 128, 160, 160, 55, 87, 191, 65, 234, 3, 59, 73, 239, 113, 134, 143, 229, 234, 122, 152, 215, 191, 44,
                  162, 226, 64, 178, 168, 152, 185, 85, 223, 146, 16, 123, 160, 88, 229, 152, 11, 171, 205, 76, 6, 151, 0, 132,
                  63, 158, 59, 25, 97, 35, 48, 135, 27, 208, 85, 193, 111, 231, 242, 142, 9, 140, 108, 232, 148, 128, 128, 128,
                  128, 128, 128, 128, 128, 128, 128, 128, 128, 128, 160, 170, 170, 170, 170, 170, 170, 170, 170, 170, 170, 170, 170, 170,
                  170, 170, 170, 170, 170, 170, 170, 170, 170, 170, 170, 170, 170, 170, 170, 170, 170, 170, 170 >>
               :> << 16, 243, 117, 106, 173, 250, 101, 139, 249, 12, 8, 217, 201, 40, 208, 202, 149, 125, 132, 196, 253, 213, 63, 203,
                     2, 162, 89, 202, 119, 49, 121, 211 >>)
              @@
              (<< 248, 113, 128, 160, 160, 55, 87, 191, 65, 234, 3, 59, 73, 239, 113, 134, 143, 229, 234, 122, 152, 215, 191, 44,
                  162, 226, 64, 178, 168, 152, 185, 85, 223, 146, 16, 123, 160, 101, 217, 52, 11, 204, 251, 208, 88, 44, 75, 121,
                  112, 138, 247, 197, 140, 203, 240, 115, 227, 95, 29, 158, 162, 86, 151, 40, 37, 213, 155, 5, 240, 128, 128, 128,
                  128, 128, 128, 128, 128, 128, 128, 128, 128, 128, 160, 170, 170, 170, 170, 170, 170, 170, 170, 170, 170, 170, 170, 170,
                  170, 170, 170, 170, 170, 170, 170, 170, 170, 170, 170, 170, 170, 170, 170, 170, 170, 170, 170 >>
               :> << 46, 44, 97, 222, 148, 156, 238, 201, 118, 128, 203, 96, 200, 111, 181, 120, 66, 170, 80, 17, 74, 228, 229, 6,
                     140, 20, 117, 72, 233, 33, 255, 153 >>)
             )
            )
           )
           @@
           (
            (
             (<< 248, 113, 128, 160, 160, 55, 87, 191, 65, 234, 3, 59, 73, 239, 113, 134, 143, 229, 234, 122, 152, 215, 191, 44,
                 162, 226, 64, 178, 168, 152, 185, 85, 223, 146, 16, 123, 160, 110, 20, 40, 238, 143, 128, 161, 48, 58, 182, 18,
                 178, 137, 253, 43, 150, 192, 237, 23, 37, 54, 122, 88, 220, 106, 174, 194, 164, 72, 96, 66, 208, 128, 128, 128,
                 128, 128, 128, 128, 128, 128, 128, 128, 128, 128, 160, 170, 170, 170, 170, 170, 170, 170, 170, 170, 170, 170, 170, 170,
                 170, 170, 170, 170, 170, 170, 170, 170, 170, 170, 170, 170, 170, 170, 170, 170, 170, 170, 170 >>
              :> << 21, 198, 51, 11, 223, 3, 215, 104, 14, 110, 235, 14, 46, 131, 203, 80, 83, 180, 39, 86, 123, 198, 69, 140,
                    99, 185, 75, 46, 71, 190, 191, 191 >>)
             @@
             (<< 248, 113, 128, 160, 160, 55, 87, 191, 65, 234, 3, 59, 73, 239, 113, 134, 143, 229, 234, 122, 152, 215, 191, 44,
                 162, 226, 64, 178, 168, 152, 185, 85, 223, 146, 16, 123, 160, 124, 230, 218, 79, 193, 196, 115, 34, 73, 20, 80,
                 30, 94, 62, 200, 140, 48, 26, 126, 108, 98, 57, 81, 24, 129, 196, 28, 255, 208, 123, 197, 74, 128, 128, 128,
                 128, 128, 128, 128, 128, 128, 128, 128, 128, 128, 160, 170, 170, 170, 170, 170, 170, 170, 170, 170, 170, 170, 170, 170,
                 170, 170, 170, 170, 170, 170, 170, 170, 170, 170, 170, 170, 170, 170, 170, 170, 170, 170, 170 >>
              :> << 179, 23, 245, 66, 241, 98, 189, 231, 209, 21, 74, 171, 114, 182, 75, 69, 218, 194, 41, 48, 205, 72, 34, 176,
                    211, 11, 105, 153, 35, 239, 48, 240 >>)
            )
            @@
            (
             (<< 248, 113, 128, 160, 160, 55, 87, 191, 65, 234, 3, 59, 73, 239, 113, 134, 143, 229, 234, 122, 152, 215, 191, 44,
                 162, 226, 64, 178, 168, 152, 185, 85, 223, 146, 16, 123, 160, 133, 91, 225, 140, 224, 190, 115, 161, 244, 36, 216,
                 39, 113, 18, 199, 76, 17, 0, 183, 62, 123, 60, 41, 253, 46, 190, 54, 18, 35, 66, 204, 74, 128, 128, 128,
                 128, 128, 128, 128, 128, 128, 128, 128, 128, 128, 160, 170, 170, 170, 170, 170, 170, 170, 170, 170, 170, 170, 170, 170,
                 170, 170, 170, 170, 170, 170, 170, 170, 170, 170, 170, 170, 170, 170, 170, 170, 170, 170, 170 >>
              :> << 29, 129, 239, 114, 91, 85, 90, 197, 173, 12, 17, 225, 98, 41, 199, 118, 127, 10, 148, 204, 20, 124, 135, 221,
                    97, 66, 191, 172, 119, 232, 107, 56 >>)
             @@
             (
              (<< 248, 113, 128, 160, 160, 55, 87, 191, 65, 234, 3, 59, 73, 239, 113, 134, 143, 229, 234, 122, 152, 215, 191, 44,
                  162, 226, 64, 178, 168, 152, 185, 85, 223, 146, 16, 123, 160, 160, 55, 87, 191, 65, 234, 3, 59, 73, 239, 113,
                  134, 143, 229, 234, 122, 152, 215, 191, 44, 162, 226, 64, 178, 168, 152, 185, 85, 223, 146, 16, 123, 128, 128, 128,
                  128, 128, 128, 128, 128, 128, 128, 128, 128, 128, 160, 170, 170, 170, 170, 170, 170, 170, 170, 170, 170, 170, 170, 170,
                  170, 170, 170, 170, 170, 170, 170, 170, 170, 170, 170, 170, 170, 170, 170, 170, 170, 170, 170 >>
               :> << 30, 248, 75, 216, 107, 145, 229, 93, 108, 87, 224, 179, 181, 39, 17, 190, 177, 126, 6, 187, 115, 191, 255, 91,
                     179, 53, 113, 206, 6, 247, 144, 151 >>)
              @@
              (<< 248, 113, 128, 160, 160, 55, 87, 191, 65, 234, 3, 59, 73, 239, 113, 134, 143, 229, 234, 122, 152, 215, 191, 44,
                  162, 226, 64, 178, 168, 152, 185, 85, 223, 146, 16, 123, 160, 211, 102, 187, 17, 52, 83, 109, 168, 35, 25, 170,
                  198, 86, 30, 155, 113, 162, 93, 203, 136, 140, 57, 89, 89, 24, 118, 177, 223, 169, 198, 68, 169, 128, 128, 128,
                  128, 128, 128, 128, 128, 128, 128, 128, 128, 128, 160, 170, 170, 170, 170, 170, 170, 170, 170, 170, 170, 170, 170, 170,
                  170, 170, 170, 170, 170, 170, 170, 170, 170, 170, 170, 170, 170, 170, 170, 170, 170, 170, 170 >>
               :> << 85, 195, 3, 164, 194, 160, 76, 23, 99, 48, 47, 49, 155, 93, 35, 28, 57, 19, 33, 19, 216, 198, 60, 158,
                     227, 23, 243, 11, 197, 216, 209, 186 >>)
             )
            )
           )
          )
         )
         @@
         (
          (
           (
            (
             (<< 248, 113, 128, 160, 160, 55, 87, 191, 65, 234, 3, 59, 73, 239, 113, 134, 143, 229, 234, 122, 152, 215, 191, 44,
                 162, 226, 64, 178, 168, 152, 185, 85, 223, 146, 16, 123, 160, 219, 234, 87, 12, 189, 96, 101, 213, 252, 102, 211,
                 178, 212, 49, 240, 83, 141, 108, 45, 230, 213, 229, 98, 253, 208, 170, 185, 132, 7, 166, 10, 145, 128, 128, 128,
                 128, 128, 128, 128, 128, 128, 128, 128, 128, 128, 160, 170, 170, 170, 170, 170, 170, 170, 170, 170, 170, 170, 170, 170,
                 170, 170, 170, 170, 170, 170, 170, 170, 170, 170, 170, 170, 170, 170, 170, 170, 170, 170, 170 >>
              :> << 16, 253, 203, 121, 174, 93, 178, 203, 138, 159, 70, 10, 74, 240, 191, 76, 115, 199, 84, 186, 23, 31, 233, 75,
                    221, 199, 151, 15, 29, 69, 113, 231 >>)
             @@
             (<< 248, 113, 128, 160, 160, 55, 87, 191, 65, 234, 3, 59, 73, 239, 113, 134, 143, 229, 234, 122, 152, 215, 191, 44,
                 162, 226, 64, 178, 168, 152, 185, 85, 223, 146, 16, 123, 160, 237, 204, 219, 228, 55, 207, 164, 155, 250, 77, 24,
                 111, 217, 28, 160, 37, 123, 146, 10, 236, 6, 23, 173, 202, 14, 152, 134, 108, 215, 209, 151, 213, 128, 128, 128,
                 128, 128, 128, 128, 128, 128, 128, 128, 128, 128, 160, 170, 170, 170, 170, 170, 170, 170, 170, 170, 170, 170, 170, 170,
                 170, 170, 170, 170, 170, 170, 170, 170, 170, 170, 170, 170, 170, 170, 170, 170, 170, 170, 170 >>
              :> << 59, 251, 238, 235, 240, 48, 137, 169, 6, 242, 149, 182, 108, 86, 173, 62, 95, 159, 216, 14, 96, 120, 6, 241,
                    177, 247, 143, 234, 254, 115, 213, 228 >>)
            )
            @@
            (
             (<< 248, 113, 128, 160, 160, 55, 87, 191, 65, 234, 3, 59, 73, 239, 113, 134, 143, 229, 234, 122, 152, 215, 191, 44,
                 162, 226, 64, 178, 168, 152, 185, 85, 223, 146, 16, 123, 160, 249, 190, 130, 143, 214, 117, 37, 60, 46, 62, 205,
                 255, 67, 121, 222, 186, 180, 89, 243, 118, 183, 85, 79, 172, 25, 55, 71, 198, 118, 241, 15, 10, 128, 128, 128,
                 128, 128, 128, 128, 128, 128, 128, 128, 128, 128, 160, 170, 170, 170, 170, 170, 170, 170, 170, 170, 170, 170, 170, 170,
                 170, 170, 170, 170, 170, 170, 170, 170, 170, 170, 170, 170, 170, 170, 170, 170, 170, 170, 170 >>
              :> << 68, 51, 131, 133, 156, 195, 72, 236, 221, 253, 77, 45, 164, 46, 237, 218, 230, 212, 135, 160, 19, 156, 40, 64,
                    22, 134, 252, 245, 7, 251, 245, 94 >>)
             @@
             (
              (<< 248, 113, 128, 160, 211, 102, 187, 17, 52, 83, 109, 168, 35, 25, 170, 198, 86, 30, 155, 113, 162, 93, 203, 136,
                  140, 57, 89, 89, 24, 118, 177, 223, 169, 198, 68, 169, 160, 15, 210, 121, 87, 19, 39, 9, 66, 180, 2, 58,
                  251, 48, 178, 87, 132, 197, 136, 32, 191, 237, 14, 224, 49, 250, 1, 163, 166, 100, 35, 60, 19, 128, 128, 128,
                  128, 128, 128, 128, 128, 128, 128, 128, 128, 128, 160, 170, 170, 170, 170, 170, 170, 170, 170, 170, 170, 170, 170, 170,
                  170, 170, 170, 170, 170, 170, 170, 170, 170, 170, 170, 170, 170, 170, 170, 170, 170, 170, 170 >>
               :> << 209, 251, 154, 184, 170, 191, 230, 94, 13, 172, 110, 244, 247, 58, 89, 254, 120, 156, 239, 48, 19, 185, 202, 158,
                     30, 96, 76, 191, 228, 210, 221, 175 >>)
              @@
              (<< 248, 113, 128, 160, 211, 102, 187, 17, 52, 83, 109, 168, 35, 25, 170, 198, 86, 30, 155, 113, 162, 93, 203, 136,
                  140, 57, 89, 89, 24, 118, 177, 223, 169, 198, 68, 169, 160, 101, 217, 52, 11, 204, 251, 208, 88, 44, 75, 121,
                  112, 138, 247, 197, 140, 203, 240, 115, 227, 95, 29, 158, 162, 86, 151, 40, 37, 213, 155, 5, 240, 128, 128, 128,
                  128, 128, 128, 128, 128, 128, 128, 128, 128, 128, 160, 170, 170, 170, 170, 170, 170, 170, 170, 170, 170, 170, 170, 170,
                  170, 170, 170, 170, 170, 170, 170, 170, 170, 170, 170, 170, 170, 170, 170, 170, 170, 170, 170 >>
               :> << 217, 28, 50, 4, 151, 52, 77, 89, 211, 222, 87, 170, 54, 255, 152, 204, 25, 180, 0, 244, 183, 18, 249, 62,
                     72, 110, 200, 239, 16, 82, 141, 154 >>)
             )
            )
           )
           @@
           (
            (
             (<< 248, 113, 128, 160, 211, 102, 187, 17, 52, 83, 109, 168, 35, 25, 170, 198, 86, 30, 155, 113, 162, 93, 203, 136,
                 140, 57, 89, 89, 24, 118, 177, 223, 169, 198, 68, 169, 160, 160, 55, 87, 191, 65, 234, 3, 59, 73, 239, 113,
                 134, 143, 229, 234, 122, 152, 215, 191, 44, 162, 226, 64, 178, 168, 152, 185, 85, 223, 146, 16, 123, 128, 128, 128,
                 128, 128, 128, 128, 128, 128, 128, 128, 128, 128, 160, 170, 170, 170, 170, 170, 170, 170, 170, 170, 170, 170, 170, 170,
                 170, 170, 170, 170, 170, 170, 170, 170, 170, 170, 170, 170, 170, 170, 170, 170, 170, 170, 170 >>
              :> << 80, 116, 24, 200, 28, 183, 28, 174, 173, 30, 195, 179, 218, 82, 224, 119, 145, 248, 33, 141, 165, 5, 194, 29,
                    104, 93, 80, 23, 84, 74, 56, 166 >>)
             @@
             (<< 248, 113, 128, 160, 211, 102, 187, 17, 52, 83, 109, 168, 35, 25, 170, 198, 86, 30, 155, 113, 162, 93, 203, 136,
                 140, 57, 89, 89, 24, 118, 177, 223, 169, 198, 68, 169, 160, 219, 234, 87, 12, 189, 96, 101, 213, 252, 102, 211,
                 178, 212, 49, 240, 83, 141, 108, 45, 230, 213, 229, 98, 253, 208, 170, 185, 132, 7, 166, 10, 145, 128, 128, 128,
                 128, 128, 128, 128, 128, 128, 128, 128, 128, 128, 160, 170, 170, 170, 170, 170, 170, 170, 170, 170, 170, 170, 170, 170,
                 170, 170, 170, 170, 170, 170, 170, 170, 170, 170, 170, 170, 170, 170, 170, 170, 170, 170, 170 >>
              :> << 53, 197, 210, 238, 0, 130, 181, 110, 123, 73, 68, 49, 221, 88, 95, 22, 140, 56, 183, 227, 231, 120, 28, 99,
                    98, 79, 61, 12, 96, 161, 145, 251 >>)
            )
            @@
            (
             (<< 248, 113, 128, 160, 215, 133, 177, 175, 70, 14, 23, 98, 71, 101, 235, 46, 123, 155, 218, 113, 121, 114, 4, 29,
                 82, 161, 84, 49, 27, 238, 29, 146, 210, 67, 118, 111, 160, 215, 133, 177, 175, 70, 14, 23, 98, 71, 101, 235,
                 46, 123, 155, 218, 113, 121, 114, 4, 29, 82, 161, 84, 49, 27, 238, 29, 146, 210, 67, 118, 111, 128, 128, 128,
                 128, 128, 128, 128, 128, 128, 128, 128, 128, 128, 160, 170, 170, 170, 170, 170, 170, 170, 170, 170, 170, 170, 170, 170,
                 170, 170, 170, 170, 170, 170, 170, 170, 170, 170, 170, 170, 170, 170, 170, 170, 170, 170, 170 >>
              :> << 180, 100, 126, 157, 63, 75, 21, 76, 59, 83, 175, 134, 99, 94, 12, 109, 25, 197, 203, 70, 3, 2, 97, 234,
                    177, 185, 135, 218, 84, 201, 53, 236 >>)
             @@
             (
              (<< 248, 113, 128, 160, 219, 234, 87, 12, 189, 96, 101, 213, 252, 102, 211, 178, 212, 49, 240, 83, 141, 108, 45, 230,
                  213, 229, 98, 253, 208, 170, 185, 132, 7, 166, 10, 145, 160, 15, 210, 121, 87, 19, 39, 9, 66, 180, 2, 58,
                  251, 48, 178, 87, 132, 197, 136, 32, 191, 237, 14, 224, 49, 250, 1, 163, 166, 100, 35, 60, 19, 128, 128, 128,
                  128, 128, 128, 128, 128, 128, 128, 128, 128, 128, 160, 170, 170, 170, 170, 170, 170, 170, 170, 170, 170, 170, 170, 170,
                  170, 170, 170, 170, 170, 170, 170, 170, 170, 170, 170, 170, 170, 170, 170, 170, 170, 170, 170 >>
               :> << 161, 69, 82, 35, 248, 157, 192, 55, 201, 176, 137, 220, 69, 71, 231, 57, 162, 248, 53, 197, 116, 223, 177, 186,
                     118, 86, 66, 161, 51, 15, 80, 66 >>)
              @@
              (<< 248, 113, 128, 160, 219, 234, 87, 12, 189, 96, 101, 213, 252, 102, 211, 178, 212, 49, 240, 83, 141, 108, 45, 230,
                  213, 229, 98, 253, 208, 170, 185, 132, 7, 166, 10, 145, 160, 101, 217, 52, 11, 204, 251, 208, 88, 44, 75, 121,
                  112, 138, 247, 197, 140, 203, 240, 115, 227, 95, 29, 158, 162, 86, 151, 40, 37, 213, 155, 5, 240, 128, 128, 128,
                  128, 128, 128, 128, 128, 128, 128, 128, 128, 128, 160, 170, 170, 170, 170, 170, 170, 170, 170, 170, 170, 170, 170, 170,
                  170, 170, 170, 170, 170, 170, 170, 170, 170, 170, 170, 170, 170, 170, 170, 170, 170, 170, 170 >>
               :> << 252, 225, 146, 218, 100, 84, 61, 253, 240, 72, 31, 246, 28, 219, 125, 238, 115, 33, 200, 146, 148, 183, 247, 169,
                     251, 251, 31, 26, 18, 164, 20, 45 >>)
             )
            )
           )
          )
          @@
          (
           (
            (
             (<< 248, 113, 128, 160, 219, 234, 87, 12, 189, 96, 101, 213, 252, 102, 211, 178, 212, 49, 240, 83, 141, 108, 45, 230,
                 213, 229, 98, 253, 208, 170, 185, 132, 7, 166, 10, 145, 160, 110, 20, 40, 238, 143, 128, 161, 48, 58, 182, 18,
                 178, 137, 253, 43, 150, 192, 237, 23, 37, 54, 122, 88, 220, 106, 174, 194, 164, 72, 96, 66, 208, 128, 128, 128,
                 128, 128, 128, 128, 128, 128, 128, 128, 128, 128, 160, 170, 170, 170, 170, 170, 170, 170, 170, 170, 170, 170, 170, 170,
                 170, 170, 170, 170, 170, 170, 170, 170, 170, 170, 170, 170, 170, 170, 170, 170, 170, 170, 170 >>
              :> << 183, 69, 143, 71, 188, 90, 159, 12, 49, 87, 57, 79, 245, 85, 126, 94, 249, 118, 84, 145, 69, 105, 173, 181,
                    250, 17, 172, 16, 104, 41, 29, 204 >>)
             @@
             (<< 248, 113, 128, 160, 219, 234, 87, 12, 189, 96, 101, 213, 252, 102, 211, 178, 212, 49, 240, 83, 141, 108, 45, 230,
                 213, 229, 98, 253, 208, 170, 185, 132, 7, 166, 10, 145, 160, 133, 91, 225, 140, 224, 190, 115, 161, 244, 36, 216,
                 39, 113, 18, 199, 76, 17, 0, 183, 62, 123, 60, 41, 253, 46, 190, 54, 18, 35, 66, 204, 74, 128, 128, 128,
                 128, 128, 128, 128, 128, 128, 128, 128, 128, 128, 160, 170, 170, 170, 170, 170, 170, 170, 170, 170, 170, 170, 170, 170,
                 170, 170, 170, 170, 170, 170, 170, 170, 170, 170, 170, 170, 170, 170, 170, 170, 170, 170, 170 >>
              :> << 84, 48, 150, 213, 232, 49, 70, 158, 9, 28, 34, 103, 118, 231, 184, 211, 90, 96, 129, 212, 200, 108, 55, 198,
                    222, 42, 35, 46, 13, 48, 125, 110 >>)
            )
            @@
            (
             (<< 248, 113, 128, 160, 219, 234, 87, 12, 189, 96, 101, 213, 252, 102, 211, 178, 212, 49, 240, 83, 141, 108, 45, 230,
                 213, 229, 98, 253, 208, 170, 185, 132, 7, 166, 10, 145, 160, 160, 55, 87, 191, 65, 234, 3, 59, 73, 239, 113,
                 134, 143, 229, 234, 122, 152, 215, 191, 44, 162, 226, 64, 178, 168, 152, 185, 85, 223, 146, 16, 123, 128, 128, 128,
                 128, 128, 128, 128, 128, 128, 128, 128, 128, 128, 160, 170, 170, 170, 170, 170, 170, 170, 170, 170, 170, 170, 170, 170,
                 170, 170, 170, 170, 170, 170, 170, 170, 170, 170, 170, 170, 170, 170, 170, 170, 170, 170, 170 >>
              :> << 158, 89, 142, 44, 170, 37, 48, 168, 104, 55, 83, 244, 37, 164, 151, 181, 214, 2, 162, 159, 238, 192, 246, 201,
                    119, 107, 69, 177, 164, 227, 142, 209 >>)
             @@
             (
              (<< 248, 113, 128, 160, 219, 234, 87, 12, 189, 96, 101, 213, 252, 102, 211, 178, 212, 49, 240, 83, 141, 108, 45, 230,
                  213, 229, 98, 253, 208, 170, 185, 132, 7, 166, 10, 145, 160, 211, 102, 187, 17, 52, 83, 109, 168, 35, 25, 170,
                  198, 86, 30, 155, 113, 162, 93, 203, 136, 140, 57, 89, 89, 24, 118, 177, 223, 169, 198, 68, 169, 128, 128, 128,
                  128, 128, 128, 128, 128, 128, 128, 128, 128, 128, 160, 170, 170, 170, 170, 170, 170, 170, 170, 170, 170, 170, 170, 170,
                  170, 170, 170, 170, 170, 170, 170, 170, 170, 170, 170, 170, 170, 170, 170, 170, 170, 170, 170 >>
               :> << 136, 221, 168, 211, 57, 223, 13, 30, 88, 222, 252, 4, 62, 149, 86, 214, 37, 193, 65, 22, 28, 231, 158, 178,
                     34, 216, 236, 55, 42, 122, 7, 249 >>)
              @@
              (<< 248, 113, 128, 160, 219, 234, 87, 12, 189, 96, 101, 213, 252, 102, 211, 178, 212, 49, 240, 83, 141, 108, 45, 230,
                  213, 229, 98, 253, 208, 170, 185, 132, 7, 166, 10, 145, 160, 219, 234, 87, 12, 189, 96, 101, 213, 252, 102, 211,
                  178, 212, 49, 240, 83, 141, 108, 45, 230, 213, 229, 98, 253, 208, 170, 185, 132, 7, 166, 10, 145, 128, 128, 128,
                  128, 128, 128, 128, 128, 128, 128, 128, 128, 128, 160, 170, 170, 170, 170, 170, 170, 170, 170, 170, 170, 170, 170, 170,
                  170, 170, 170, 170, 170, 170, 170, 170, 170, 170, 170, 170, 170, 170, 170, 170, 170, 170, 170 >>
               :> << 195, 132, 159, 185, 83, 80, 21, 148, 150, 18, 56, 169, 10, 56, 225, 93, 104, 140, 253, 164, 229, 179, 209, 90,
                     175, 127, 34, 247, 164, 24, 185, 197 >>)
             )
            )
           )
           @@
           (
            (
             (<< 248, 113, 128, 160, 219, 234, 87, 12, 189, 96, 101, 213, 252, 102, 211, 178, 212, 49, 240, 83, 141, 108, 45, 230,
                 213, 229, 98, 253, 208, 170, 185, 132, 7, 166, 10, 145, 160, 237, 204, 219, 228, 55, 207, 164, 155, 250, 77, 24,
                 111, 217, 28, 160, 37, 123, 146, 10, 236, 6, 23, 173, 202, 14, 152, 134, 108, 215, 209, 151, 213, 128, 128, 128,
                 128, 128, 128, 128, 128, 128, 128, 128, 128, 128, 160, 170, 170, 170, 170, 170, 170, 170, 170, 170, 170, 170, 170, 170,
                 170, 170, 170, 170, 170, 170, 170, 170, 170, 170, 170, 170, 170, 170, 170, 170, 170, 170, 170 >>
              :> << 167, 88, 205, 134, 194, 121, 121, 70, 196, 90, 229, 254, 160, 114, 149, 25, 219, 249, 137, 71, 201, 179, 95, 7,
                    146, 97, 119, 37, 198, 42, 0, 160 >>)
             @@
             (<< 248, 113, 128, 160, 237, 204, 219, 228, 55, 207, 164, 155, 250, 77, 24, 111, 217, 28, 160, 37, 123, 146, 10, 236,
                 6, 23, 173, 202, 14, 152, 134, 108, 215, 209, 151, 213, 160, 15, 210, 121, 87, 19, 39, 9, 66, 180, 2, 58,
                 251, 48, 178, 87, 132, 197, 136, 32, 191, 237, 14, 224, 49, 250, 1, 163, 166, 100, 35, 60, 19, 128, 128, 128,
                 128, 128, 128, 128, 128, 128, 128, 128, 128, 128, 160, 170, 170, 170, 170, 170, 170, 170, 170, 170, 170, 170, 170, 170,
                 170, 170, 170, 170, 170, 170, 170, 170, 170, 170, 170, 170, 170, 170, 170, 170, 170, 170, 170 >>
              :> << 38, 0, 20, 117, 104, 103, 216, 230, 79, 182, 49, 43, 34, 215, 138, 145, 165, 149, 245, 139, 204, 143, 6, 29,
                    47, 203, 168, 34, 0, 154, 55, 134 >>)
            )
            @@
            (
             (<< 248, 113, 128, 160, 237, 204, 219, 228, 55, 207, 164, 155, 250, 77, 24, 111, 217, 28, 160, 37, 123, 146, 10, 236,
                 6, 23, 173, 202, 14, 152, 134, 108, 215, 209, 151, 213, 160, 101, 217, 52, 11, 204, 251, 208, 88, 44, 75, 121,
                 112, 138, 247, 197, 140, 203, 240, 115, 227, 95, 29, 158, 162, 86, 151, 40, 37, 213, 155, 5, 240, 128, 128, 128,
                 128, 128, 128, 128, 128, 128, 128, 128, 128, 128, 160, 170, 170, 170, 170, 170, 170, 170, 170, 170, 170, 170, 170, 170,
                 170, 170, 170, 170, 170, 170, 170, 170, 170, 170, 170, 170, 170, 170, 170, 170, 170, 170, 170 >>
              :> << 24, 244, 135, 73, 127, 192, 175, 253, 250, 113, 151, 170, 182, 137, 40, 71, 108, 21, 36, 174, 126, 59, 35, 40,
                    88, 171, 98, 80, 67, 148, 109, 232 >>)
             @@
             (
              (<< 248, 113, 128, 160, 237, 204, 219, 228, 55, 207, 164, 155, 250, 77, 24, 111, 217, 28, 160, 37, 123, 146, 10, 236,
                  6, 23, 173, 202, 14, 152, 134, 108, 215, 209, 151, 213, 160, 160, 55, 87, 191, 65, 234, 3, 59, 73, 239, 113,
                  134, 143, 229, 234, 122, 152, 215, 191, 44, 162, 226, 64, 178, 168, 152, 185, 85, 223, 146, 16, 123, 128, 128, 128,
                  128, 128, 128, 128, 128, 128, 128, 128, 128, 128, 160, 170, 170, 170, 170, 170, 170, 170, 170, 170, 170, 170, 170, 170,
                  170, 170, 170, 170, 170, 170, 170, 170, 170, 170, 170, 170, 170, 170, 170, 170, 170, 170, 170 >>
               :> << 224, 178, 175, 235, 0, 82, 143, 51, 118, 29, 31, 230, 148, 114, 46, 116, 171, 34, 235, 134, 29, 117, 59, 166,
                     185, 153, 170, 159, 183, 232, 100, 201 >>)
              @@
              (<< 248, 113, 128, 160, 237, 204, 219, 228, 55, 207, 164, 155, 250, 77, 24, 111, 217, 28, 160, 37, 123, 146, 10, 236,
                  6, 23, 173, 202, 14, 152, 134, 108, 215, 209, 151, 213, 160, 219, 234, 87, 12, 189, 96, 101, 213, 252, 102, 211,
                  178, 212, 49, 240, 83, 141, 108, 45, 230, 213, 229, 98, 253, 208, 170, 185, 132, 7, 166, 10, 145, 128, 128, 128,
                  128, 128, 128, 128, 128, 128, 128, 128, 128, 128, 160, 170, 170, 170, 170, 170, 170, 170, 170, 170, 170, 170, 170, 170,
                  170, 170, 170, 170, 170, 170, 170, 170, 170, 170, 170, 170, 170, 170, 170, 170, 170, 170, 170 >>
               :> << 192, 78, 148, 18, 187, 182, 162, 43, 145, 131, 103, 4, 92, 250, 128, 152, 122, 182, 68, 201, 208, 240, 209, 131,
                     166, 238, 47, 95, 30, 234, 39, 74 >>)
             )
            )
           )
          )
         )
        )
       )
      )
     )
    )

\* keccak256(data): hasher.update(data); hasher.finalize().into()
keccak256(data) ==
    IF data \in DOMAIN KnownDigests THEN KnownDigests[data] ELSE Keccak256(data)

\* ------------------------------------------------------------------------
\* rlp_encoding.rs
\* ------------------------------------------------------------------------

RECURSIVE length_to_bytes(_)
\* big-endian minimal-width bytes of len; [0] for 0
length_to_bytes(len) ==
    IF len = 0 THEN << 0 >>
    ELSE IF len < 256 THEN << len >>
    ELSE length_to_bytes(len \div 256) \o << len % 256 >>

\* A usize is 64 bits wide; a sequence of the model has at most SeqMax
\* elements.  The model holds a usize as an integer: a value up to SeqMax
\* stands for itself, a negative value -d stands for 2^64 - d (d up to
\* SeqMax), and Far stands for every value in between (2^31 .. 2^64 - 2^31):
\* such a value exceeds the length of every sequence, and a position in a
\* sequence added to it does not wrap.
SeqMax == 2147483647

Far == (-SeqMax) - 1

RECURSIVE LowLength(_)
\* len = (len << 8) | byte over at most four bytes, the first below 0x80
LowLength(bytes) ==
    IF Len(bytes) = 0 THEN 0
    ELSE LowLength(SubSeq(bytes, 1, Len(bytes) - 1)) * 256 + bytes[Len(bytes)]

\* the positions of the bytes that end above the low four bytes of the usize
\* (bytes before the last eight are shifted out)
HighPositions(bytes) ==
    { j \in 1..Len(bytes) : j > Len(bytes) - 8 /\ j <= Len(bytes) - 4 }

\* the low four bytes of the usize, with 0x80 taken off the first of them
\* when clear is TRUE (bytes holds at least four bytes then)
LowFour(bytes, clear) ==
    IF clear
    THEN LowLength(<< bytes[Len(bytes) - 3] - 128 >>
                   \o SubSeq(bytes, Len(bytes) - 2, Len(bytes)))
    ELSE LowLength(SubSeq(bytes, Len(bytes) - Min(Len(bytes), 4) + 1, Len(bytes)))

\* len = (len << 8) | byte over the bytes
bytes_to_length(bytes) ==
    IF /\ \A j \in HighPositions(bytes) : bytes[j] = 0
       /\ (Len(bytes) >= 4 => bytes[Len(bytes) - 3] < 128)
    THEN LowFour(bytes, FALSE)
    ELSE IF /\ Len(bytes) >= 8
            /\ \A j \in HighPositions(bytes) : bytes[j] = 255
            /\ bytes[Len(bytes) - 3] >= 128
    THEN \* 2^64 - d with d = 2^32 - the low four bytes; Far when d = 2^31
         (LowFour(bytes, TRUE) - SeqMax) - 1
    ELSE Far

\* a + u on usize, a a position in a sequence or a small count: the wrapped
\* sum
USum(a, u) ==
    IF u = Far THEN Far
    ELSE IF u >= 0 /\ u > SeqMax - a THEN Far
    ELSE a + u

\* a + u exceeds 2^64 - 1: the build with overflow checks panics on the
\* addition, the build without them goes on with the wrapped sum
Overflows(a, u) == u # Far /\ u < 0 /\ a + u >= 0

\* n < u on usize, n the length of a sequence
ULess(n, u) == u = Far \/ u < 0 \/ n < u

encode_bytes(data) ==
    IF Len(data) = 1 /\ data[1] < 128 THEN data
    ELSE IF Len(data) < 56 THEN << 128 + Len(data) >> \o data
    ELSE LET len_bytes == length_to_bytes(Len(data))
         IN  << 183 + Len(len_bytes) >> \o len_bytes \o data

encode_list(items) ==
    LET payload == Concat(items)
    IN  IF Len(payload) < 56 THEN << 192 + Len(payload) >> \o payload
        ELSE LET len_bytes == length_to_bytes(Len(payload))
             IN  << 247 + Len(len_bytes) >> \o len_bytes \o payload

\* Results: [ok |-> TRUE, val |-> v] is Ok(v), [ok |-> FALSE, val |-> <<>>]
\* is Err(_), panic |-> TRUE is a panic (an out-of-range slice).  The
\* record is what the build without overflow checks returns; overflow |->
\* TRUE says that an addition wrapped on the way, where the build with
\* overflow checks panics instead.  hang |-> TRUE: the call does not return.
Ok(v) == [ok |-> TRUE, panic |-> FALSE, val |-> v, overflow |-> FALSE, hang |-> FALSE]

Err == [ok |-> FALSE, panic |-> FALSE, val |-> << >>, overflow |-> FALSE, hang |-> FALSE]

Panic == [ok |-> FALSE, panic |-> TRUE, val |-> << >>, overflow |-> FALSE, hang |-> FALSE]

\* the while loop of decode_list with an item of length 0: pos never
\* advances and an empty item is pushed for ever
Hang == [ok |-> FALSE, panic |-> FALSE, val |-> << >>, overflow |-> TRUE, hang |-> TRUE]

\* r, reached after an addition that wrapped when o
WithOverflow(r, o) == [r EXCEPT !.overflow = @ \/ o]

\* decode_bytes reading a long string as if its length field were one byte
decode_bytes_OneLengthByte(data) ==
    IF Len(data) = 0 THEN Err
    ELSE IF data[1] < 128 THEN Ok(data)
    ELSE IF data[1] <= 183
         THEN (IF Len(data) < 1 + (data[1] - 128) THEN Err
               ELSE Ok(Slice(data, 1, 1 + (data[1] - 128))))
    ELSE IF data[1] <= 191
         THEN (IF Len(data) < 2 + data[2] THEN Err
               ELSE Ok(Slice(data, 2, 2 + data[2])))
    ELSE Err

decode_bytes(data) ==
    IF Len(data) = 0 THEN Err
    ELSE LET prefix == data[1]
         IN  IF prefix < 128 THEN Ok(data)
             ELSE IF prefix <= 183
                  THEN LET len == prefix - 128
                       IN  IF Len(data) < 1 + len THEN Err
                           ELSE Ok(Slice(data, 1, 1 + len))
             ELSE IF prefix <= 191
                  THEN LET len_of_len == prefix - 183
                       IN  IF Len(data) < 1 + len_of_len THEN Err
                           ELSE LET str_len ==
                                      bytes_to_length(Slice(data, 1, 1 + len_of_len))
                                IN  IF Overflows(1 + len_of_len, str_len)
                                    THEN \* the sum wraps below 1 + len_of_len:
                                         \* the check passes and the slice
                                         \* starts after its end
                                         Panic
                                    ELSE IF ULess(Len(data), USum(1 + len_of_len, str_len))
                                    THEN Err
                                    ELSE Ok(Slice(data, 1 + len_of_len,
                                                  1 + len_of_len + str_len))
             ELSE Err

\* an item length: [len |-> the usize, overflow |-> the sum wrapped,
\* panic |-> the slice of the length bytes runs past the end of data]
ItemLen(len, overflow) == [len |-> len, overflow |-> overflow, panic |-> FALSE]

\* 1 + len_of_len + data_len for the long item at data[pos]
LongItemLen(data, pos, len_of_len) ==
    IF pos + 1 + len_of_len > Len(data)
    THEN [len |-> 0, overflow |-> FALSE, panic |-> TRUE]
    ELSE ItemLen(
             USum(1 + len_of_len,
                  bytes_to_length(Slice(data, pos + 1, pos + 1 + len_of_len))),
             Overflows(1 + len_of_len,
                  bytes_to_length(Slice(data, pos + 1, pos + 1 + len_of_len))))

\* let item_len = ... for the item at data[pos]
item_len(data, pos) ==
    IF data[pos + 1] < 128 THEN ItemLen(1, FALSE)
    ELSE IF data[pos + 1] <= 183 THEN ItemLen(1 + (data[pos + 1] - 128), FALSE)
    ELSE IF data[pos + 1] <= 191 THEN LongItemLen(data, pos, data[pos + 1] - 183)
    ELSE IF data[pos + 1] <= 247 THEN ItemLen(1 + (data[pos + 1] - 192), FALSE)
    ELSE LongItemLen(data, pos, data[pos + 1] - 247)

RECURSIVE decode_items(_, _, _, _)
\* the while pos < end loop of decode_list
decode_items(data, pos, end, items) ==
    IF pos >= end THEN Ok(items)
    ELSE LET n == item_len(data, pos)
         IN  IF n.panic THEN Panic
             ELSE IF Overflows(pos, n.len)
             THEN \* pos + item_len wraps below pos: the check passes and
                  \* the slice data[pos..pos + item_len] starts after its end
                  WithOverflow(Panic, TRUE)
             ELSE IF ULess(end, USum(pos, n.len)) THEN WithOverflow(Err, n.overflow)
             ELSE IF n.len = 0 THEN Hang
             ELSE WithOverflow(
                      decode_items(data, pos + n.len, end,
                                   Append(items, Slice(data, pos, pos + n.len))),
                      n.overflow)

\* decode_list on a long list whose length field holds payload_len
LongList(data, payload_start, payload_len) ==
    IF Overflows(payload_start, payload_len)
    THEN \* payload_start + payload_len wraps below payload_start: the check
         \* passes, end < pos and the loop is not entered
         WithOverflow(Ok(<< >>), TRUE)
    ELSE IF ULess(Len(data), USum(payload_start, payload_len)) THEN Err
    ELSE decode_items(data, payload_start, payload_start + payload_len, << >>)

decode_list(data) ==
    IF Len(data) = 0 THEN Err
    ELSE LET prefix == data[1]
         IN  IF prefix >= 192
             THEN IF prefix <= 247
                  THEN LET payload_len == prefix - 192
                       IN  IF Len(data) < 1 + payload_len THEN Err
                           ELSE decode_items(data, 1, 1 + payload_len, << >>)
                  ELSE LET len_of_len == prefix - 247
                       IN  IF Len(data) < 1 + len_of_len THEN Err
                           ELSE LongList(data, 1 + len_of_len,
                                    bytes_to_length(Slice(data, 1, 1 + len_of_len)))
             ELSE Ok(<< data >>)

\* ------------------------------------------------------------------------
\* path.rs
\* ------------------------------------------------------------------------

\* (a << 4) | b on two nibbles
Pack(a, b) == ((a * 16) % 256) + b

encode_path(nibbles, is_leaf) ==
    LET n == Len(nibbles)
        odd_len == n % 2 = 1
        prefix == IF odd_len THEN (IF is_leaf THEN 3 ELSE 1)
                  ELSE (IF is_leaf THEN 2 ELSE 0)
    IN  IF odd_len
        THEN << Pack(prefix, nibbles[1]) >>
             \o [j \in 1..((n - 1) \div 2) |-> Pack(nibbles[2 * j], nibbles[2 * j + 1])]
        ELSE << Pack(prefix, 0) >>
             \o [j \in 1..(n \div 2) |-> Pack(nibbles[2 * j - 1], nibbles[2 * j])]

\* decode_path that takes no nibble from the first byte of an odd-length path
decode_path_NoOddNibble(encoded) ==
    IF Len(encoded) = 0 THEN << << >>, FALSE >>
    ELSE << [j \in 1..(2 * (Len(encoded) - 1)) |->
                IF j % 2 = 1 THEN encoded[1 + (j + 1) \div 2] \div 16
                ELSE encoded[1 + j \div 2] % 16],
            ((encoded[1] \div 16) \div 2) % 2 # 0 >>

\* returns <<nibbles, is_leaf>>
decode_path(encoded) ==
    IF Len(encoded) = 0 THEN << << >>, FALSE >>
    ELSE LET first == encoded[1]
             prefix == first \div 16
             is_leaf == (prefix \div 2) % 2 # 0
             odd_len == prefix % 2 # 0
             rest == [j \in 1..(2 * (Len(encoded) - 1)) |->
                        IF j % 2 = 1 THEN encoded[1 + (j + 1) \div 2] \div 16
                        ELSE encoded[1 + j \div 2] % 16]
         IN  << (IF odd_len THEN << first % 16 >> ELSE << >>) \o rest, is_leaf >>

to_nibbles(data) ==
    [j \in 1..(2 * Len(data)) |->
        IF j % 2 = 1 THEN data[(j + 1) \div 2] \div 16
        ELSE data[j \div 2] % 16]

\* builder.rs: a.iter().zip(b).take_while(|(x, y)| x == y).count()
common_prefix_len(a, b) ==
    Cardinality({i \in 1..Min(Len(a), Len(b)) : \A j \in 1..i : a[j] = b[j]})

\* ------------------------------------------------------------------------
\* builder.rs: TrieNode and MPTBuilder.  A builder value is the record
\* [nodes, node_cache, root]: nodes maps a digest to the serialized body,
\* node_cache maps a digest to the decoded TrieNode, root is Option<H256>.
\*
\* The result of a &mut self call is a record with the builder after the
\* call (b), what the call returned (hash or node) and how it ended in the
\* build without overflow checks: panic |-> TRUE for a panic, hang |-> TRUE
\* when it does not return.  checked is None when the build with overflow
\* checks ends the same way, and Some(the builder at that point) when it
\* panics on an addition of decode_list that the other build wraps.
\* ------------------------------------------------------------------------

Empty == [kind |-> "Empty"]

Leaf(path, value) == [kind |-> "Leaf", path |-> path, value |-> value]

Extension(path, child_hash) ==
    [kind |-> "Extension", path |-> path, child |-> child_hash]

Branch(children, value) ==
    [kind |-> "Branch", children |-> children, value |-> value]

\* [Option<H256>; 16]::default()
NoChildren == [i \in 0..15 |-> None]

\* MapInsert into a map emptied first
MapInsertCleared(m, k, v) == [y \in {k} |-> v]

\* HashMap::insert
MapInsert(m, k, v) == [y \in (DOMAIN m) \cup {k} |-> IF y = k THEN v ELSE m[y]]

EmptyMap == [y \in {} |-> << >>]

\* MPTBuilder::new
new == [nodes |-> EmptyMap, node_cache |-> EmptyMap, root |-> None]

\* self.nodes.insert(hash, rlp); self.node_cache.insert(hash, node); hash
StoreAt(b, hash, rlp, node) ==
    [b |-> [b EXCEPT !.nodes = MapInsert(b.nodes, hash, rlp),
                     !.node_cache = MapInsert(b.node_cache, hash, node)],
     hash |-> hash,
     panic |-> FALSE, hang |-> FALSE, checked |-> None]

\* StoreNode under the digest of the body without its last byte
StoreNodeUnderShortDigest(b, rlp, node) ==
    StoreAt(b, keccak256(Slice(rlp, 0, Len(rlp) - 1)), rlp, node)

\* let hash = keccak256(&rlp), then the two map inserts
StoreNode(b, rlp, node) == StoreAt(b, keccak256(rlp), rlp, node)

LeafRlp(path, value) ==
    encode_list(<< encode_bytes(encode_path(path, TRUE)), encode_bytes(value) >>)

create_leaf(b, path, value) ==
    StoreNode(b, LeafRlp(path, value), Leaf(path, value))

ExtensionRlp(path, child_hash) ==
    encode_list(<< encode_bytes(encode_path(path, FALSE)), encode_bytes(child_hash) >>)

create_extension(b, path, child_hash) ==
    StoreNode(b, ExtensionRlp(path, child_hash), Extension(path, child_hash))

BranchRlp(children, value) ==
    encode_list([j \in 1..17 |->
        IF j <= 16
        THEN (IF IsSome(children[j - 1]) THEN encode_bytes(children[j - 1][1])
              ELSE encode_bytes(<< >>))
        ELSE (IF IsSome(value) THEN encode_bytes(value[1])
              ELSE encode_bytes(<< >>))])

create_branch_node(b, children, value) ==
    StoreNode(b, BranchRlp(children, value), Branch(children, value))

\* get_node, two-item list: a leaf or an extension by the path's flag
NodeOfPath(dp, second) ==
    IF dp[2]
    THEN (IF second.ok THEN Leaf(dp[1], second.val) ELSE Empty)
    ELSE (IF second.ok /\ Len(second.val) = 32
          THEN Extension(dp[1], second.val) ELSE Empty)

\* get_node, two-item list: decode_bytes(&items[0]) then decode_path
NodeOfPair(path_bytes, second) ==
    IF ~path_bytes.ok THEN Empty
    ELSE NodeOfPath(decode_path(path_bytes.val), second)

\* get_node, 17-item list: a child slot holds a digest only when it decodes
\* to exactly 32 bytes
ChildOf(child_bytes) ==
    IF child_bytes.ok /\ Len(child_bytes.val) = 32
    THEN Some(child_bytes.val) ELSE None

\* get_node, 17-item list: the value slot, None when it decodes empty
ValueOf(v) == IF v.ok /\ Len(v.val) # 0 THEN Some(v.val) ELSE None

\* get_node: the TrieNode of a decoded item list
NodeOfItems(items) ==
    IF ~items.ok THEN Empty
    ELSE IF Len(items.val) = 2
    THEN NodeOfPair(decode_bytes(items.val[1]), decode_bytes(items.val[2]))
    ELSE IF Len(items.val) = 17
    THEN Branch([i \in 0..15 |-> ChildOf(decode_bytes(items.val[i + 1]))],
                ValueOf(decode_bytes(items.val[17])))
    ELSE Empty

\* get_node: a decoded node is put in node_cache unless it is Empty
CacheNode(b, hash, node) ==
    IF node = Empty
    THEN [b |-> b, node |-> Empty, panic |-> FALSE, hang |-> FALSE, checked |-> None]
    ELSE [b |-> [b EXCEPT !.node_cache = MapInsert(b.node_cache, hash, node)],
          node |-> node, panic |-> FALSE, hang |-> FALSE, checked |-> None]

\* the result r of a call in which the build with overflow checks panicked
\* at the builder checked[1] when checked is Some
Checked(r, checked) == IF IsSome(checked) THEN [r EXCEPT !.checked = checked] ELSE r

\* get_node on a stored body that is not in node_cache; items is
\* decode_list(rlp)
LoadNode(b, hash, items) ==
    IF items.panic
    THEN [b |-> b, node |-> Empty, panic |-> TRUE, hang |-> FALSE, checked |-> None]
    ELSE IF items.hang
    THEN [b |-> b, node |-> Empty, panic |-> FALSE, hang |-> TRUE, checked |-> Some(b)]
    ELSE Checked(CacheNode(b, hash, NodeOfItems(items)),
                 IF items.overflow THEN Some(b) ELSE None)

\* get_node(&mut self, hash)
get_node(b, hash) ==
    IF hash \in DOMAIN b.node_cache
    THEN [b |-> b, node |-> b.node_cache[hash],
          panic |-> FALSE, hang |-> FALSE, checked |-> None]
    ELSE IF hash \in DOMAIN b.nodes
    THEN LoadNode(b, hash, decode_list(b.nodes[hash]))
    ELSE [b |-> b, node |-> Empty, panic |-> FALSE, hang |-> FALSE, checked |-> None]

\* WrapBranch without the test of common_len: an Extension around every
\* new branch, with an empty path when nothing is shared
WrapBranchAlways(r, path, common_len) ==
    create_extension(r.b, Slice(path, 0, common_len), r.hash)

\* if common_len == 0 { branch } else { create_extension(&path[..common_len], branch) }
WrapBranch(r, path, common_len) ==
    IF common_len = 0 THEN r
    ELSE create_extension(r.b, Slice(path, 0, common_len), r.hash)

\* A branch under construction is [b |-> builder so far, children, value].
\* children[idx] = Some(child): the builder moves on to the one that stored
\* the child
WithChild(acc, idx, child) ==
    [acc EXCEPT !.b = child.b, !.children[idx] = Some(child.hash)]

\* self.create_branch_node(children, value)
BranchOf(acc) == create_branch_node(acc.b, acc.children, acc.value)

\* insert_at, Leaf arm: the existing leaf goes to the value slot when its path
\* ends at the branch, else to a new leaf under leaf_path[common_len]
PlaceOldLeaf(b, leaf_path, leaf_value, common_len) ==
    IF common_len = Len(leaf_path)
    THEN [b |-> b, children |-> NoChildren, value |-> Some(leaf_value)]
    ELSE WithChild([b |-> b, children |-> NoChildren, value |-> None],
                   leaf_path[common_len + 1],
                   create_leaf(b, Slice(leaf_path, common_len + 1, Len(leaf_path)),
                               leaf_value))

\* PlaceNewLeaf into a fresh branch: what PlaceOldLeaf placed is dropped
PlaceNewLeafAlone(old, path, value, common_len) ==
    IF common_len = Len(path)
    THEN [b |-> old.b, children |-> NoChildren, value |-> Some(value)]
    ELSE WithChild([b |-> old.b, children |-> NoChildren, value |-> None],
                   path[common_len + 1],
                   create_leaf(old.b, Slice(path, common_len + 1, Len(path)), value))

\* insert_at, Leaf arm: the new value likewise
PlaceNewLeaf(old, path, value, common_len) ==
    IF common_len = Len(path)
    THEN [old EXCEPT !.value = Some(value)]
    ELSE WithChild(old, path[common_len + 1],
                   create_leaf(old.b, Slice(path, common_len + 1, Len(path)), value))

\* insert_at, TrieNode::Leaf arm when the paths differ: build the branch
SplitLeaf(b, leaf_path, leaf_value, path, value, common_len) ==
    WrapBranch(
        BranchOf(PlaceNewLeaf(PlaceOldLeaf(b, leaf_path, leaf_value, common_len),
                              path, value, common_len)),
        path, common_len)

\* InsertAtLeaf keeping the stored value on an exact match
InsertAtLeafKeepOld(b, leaf_path, leaf_value, path, value) ==
    LET common_len == common_prefix_len(leaf_path, path)
    IN  IF common_len = Len(leaf_path) /\ common_len = Len(path)
        THEN create_leaf(b, path, leaf_value)
        ELSE SplitLeaf(b, leaf_path, leaf_value, path, value, common_len)

\* insert_at, TrieNode::Leaf arm
InsertAtLeaf(b, leaf_path, leaf_value, path, value) ==
    LET common_len == common_prefix_len(leaf_path, path)
    IN  IF common_len = Len(leaf_path) /\ common_len = Len(path)
        THEN create_leaf(b, path, value)
        ELSE SplitLeaf(b, leaf_path, leaf_value, path, value, common_len)

\* MoveOldChild without the test of common_len + 1: the old child always
\* goes behind a new extension, with an empty path when no nibble remains
MoveOldChildBehindExtension(b, ext_path, child_hash, common_len) ==
    WithChild([b |-> b, children |-> NoChildren, value |-> None],
              ext_path[common_len + 1],
              create_extension(b, Slice(ext_path, common_len + 1, Len(ext_path)),
                               child_hash))

\* insert_at, Extension arm, split: the old child goes under
\* ext_path[common_len], behind a shorter extension when more than one nibble
\* of ext_path remains
MoveOldChild(b, ext_path, child_hash, common_len) ==
    IF common_len + 1 = Len(ext_path)
    THEN [b |-> b,
          children |-> [NoChildren EXCEPT ![ext_path[common_len + 1]] = Some(child_hash)],
          value |-> None]
    ELSE WithChild([b |-> b, children |-> NoChildren, value |-> None],
                   ext_path[common_len + 1],
                   create_extension(b, Slice(ext_path, common_len + 1, Len(ext_path)),
                                    child_hash))

\* insert_at, Extension arm, split: let new_idx = path[common_len] as usize,
\* then the value goes in the branch when common_len + 1 == path.len(), else
\* in a new leaf under new_idx
PlaceNewUnderSplit(old, path, value, common_len) ==
    IF common_len >= Len(path)
    THEN \* path[common_len]: index out of bounds
         [b |-> old.b, hash |-> << >>, panic |-> TRUE, hang |-> FALSE, checked |-> None]
    ELSE IF common_len + 1 = Len(path)
    THEN WrapBranch(BranchOf([old EXCEPT !.value = Some(value)]), path, common_len)
    ELSE WrapBranch(
             BranchOf(WithChild(old, path[common_len + 1],
                 create_leaf(old.b, Slice(path, common_len + 1, Len(path)), value))),
             path, common_len)

\* insert_at, TrieNode::Extension arm when the extension must be split
\* (common_len < ext_path.len())
SplitExtension(b, ext_path, child_hash, path, value, common_len) ==
    PlaceNewUnderSplit(MoveOldChild(b, ext_path, child_hash, common_len),
                       path, value, common_len)

\* insert_at, Extension arm, full match: self.create_extension(&ext_path,
\* new_child) around the recursive result
RelinkExtension(new_child, ext_path) ==
    IF new_child.panic \/ new_child.hang THEN new_child
    ELSE Checked(create_extension(new_child.b, ext_path, new_child.hash),
                 new_child.checked)

\* insert_at, Branch arm: children[idx] = Some(new_child), then
\* self.create_branch_node(children, branch_value)
RelinkBranch(new_child, children, idx, branch_value) ==
    IF new_child.panic \/ new_child.hang THEN new_child
    ELSE Checked(create_branch_node(new_child.b,
                     [children EXCEPT ![idx] = Some(new_child.hash)], branch_value),
                 new_child.checked)

RECURSIVE insert_at(_, _, _, _)

\* insert_at, TrieNode::Extension arm
InsertAtExtension(b, ext_path, child_hash, path, value, common_len) ==
    IF common_len = Len(ext_path)
    THEN RelinkExtension(
             insert_at(b, Some(child_hash), Slice(path, common_len, Len(path)), value),
             ext_path)
    ELSE SplitExtension(b, ext_path, child_hash, path, value, common_len)

\* insert_at, TrieNode::Branch arm
InsertAtBranch(b, children, branch_value, path, value) ==
    IF Len(path) = 0
    THEN create_branch_node(b, children, Some(value))
    ELSE RelinkBranch(
             insert_at(b, children[path[1]], Slice(path, 1, Len(path)), value),
             children, path[1], branch_value)

\* insert_at: the match on the node that get_node returned
MatchNode(g, path, value) ==
    IF g.node.kind = "Empty" THEN create_leaf(g.b, path, value)
    ELSE IF g.node.kind = "Leaf"
    THEN InsertAtLeaf(g.b, g.node.path, g.node.value, path, value)
    ELSE IF g.node.kind = "Extension"
    THEN InsertAtExtension(g.b, g.node.path, g.node.child, path, value,
                           common_prefix_len(g.node.path, path))
    ELSE InsertAtBranch(g.b, g.node.children, g.node.value, path, value)

\* insert_at after let node = self.get_node(&hash): a get_node that did not
\* return ends the call; one on which the build with overflow checks
\* panicked is the first such point of the call
InsertAtNode(g, path, value) ==
    IF g.panic \/ g.hang
    THEN [b |-> g.b, hash |-> << >>, panic |-> g.panic, hang |-> g.hang,
          checked |-> g.checked]
    ELSE Checked(MatchNode(g, path, value), g.checked)

\* [b |-> builder after the call, hash |-> returned digest, panic, hang,
\* checked]
insert_at(b, node_hash, path, value) ==
    IF ~IsSome(node_hash) THEN create_leaf(b, path, value)
    ELSE InsertAtNode(get_node(b, node_hash[1]), path, value)

\* insert: self.root = Some(new_root); on a panic the call does not return
\* and self.root is not assigned
SetRoot(r) ==
    IF r.panic \/ r.hang THEN r
    ELSE [r EXCEPT !.b.root = Some(r.hash)]

\* MPTBuilder::insert
insert(b, key, value) == SetRoot(insert_at(b, b.root, to_nibbles(key), value))

\* The result of a &self walk is the Option it returns, or PanicOpt when it
\* panics, HangOpt when it does not return, and WrappedOpt(o) when an
\* addition of decode_list wrapped: the build with overflow checks panics
\* there, the build without them ends as o.
PanicOpt == << << >>, << >> >>

HangOpt == << << >>, << >>, << >> >>

WrappedOpt(o) == << o, << >>, << >>, << >> >>

\* the result o of the build without overflow checks, reached after an
\* addition that wrapped when wrapped
OptOnOverflow(wrapped, o) ==
    IF ~wrapped \/ Len(o) = 2 \/ Len(o) = 4 THEN o ELSE WrappedOpt(o)

\* the walk did not return an Option in some build
Panicked(o) == Len(o) > 1

\* LeafMatch without the comparison: every leaf reached answers the lookup
LeafMatchUnchecked(path, remaining_path) == TRUE

\* get: if path == remaining_path (the leaf holds the key looked up)
LeafMatch(path, remaining_path) == path = remaining_path

RECURSIVE GetLoop(_, _, _)
\* the loop of MPTBuilder::get
GetLoop(b, current_hash, remaining_path) ==
    IF current_hash \notin DOMAIN b.nodes THEN None
    ELSE LET node_rlp == b.nodes[current_hash]
             items == decode_list(node_rlp)
         IN  IF items.panic THEN PanicOpt
             ELSE IF items.hang THEN WrappedOpt(HangOpt)
             ELSE OptOnOverflow(items.overflow,
             IF ~items.ok THEN None
             ELSE IF Len(items.val) = 2
             THEN LET path_bytes == decode_bytes(items.val[1])
                  IN  IF ~path_bytes.ok THEN None
                      ELSE LET dp == decode_path(path_bytes.val)
                               path == dp[1]
                           IN  IF dp[2]
                               THEN IF LeafMatch(path, remaining_path)
                                    THEN LET v == decode_bytes(items.val[2])
                                         IN  IF v.ok THEN Some(v.val) ELSE None
                                    ELSE None
                               ELSE IF ~StartsWith(remaining_path, path) THEN None
                               ELSE LET child_bytes == decode_bytes(items.val[2])
                                    IN  IF ~child_bytes.ok THEN None
                                        ELSE IF Len(child_bytes.val) # 32 THEN None
                                        ELSE GetLoop(b, child_bytes.val,
                                                 Slice(remaining_path, Len(path),
                                                       Len(remaining_path)))
             ELSE IF Len(items.val) = 17
             THEN IF Len(remaining_path) = 0
                  THEN LET value == decode_bytes(items.val[17])
                       IN  IF ~value.ok THEN None
                           ELSE IF Len(value.val) = 0 THEN None
                           ELSE Some(value.val)
                  ELSE LET idx == remaining_path[1]
                           child_bytes == decode_bytes(items.val[idx + 1])
                       IN  IF ~child_bytes.ok THEN None
                           ELSE IF Len(child_bytes.val) = 0 THEN None
                           ELSE IF Len(child_bytes.val) # 32 THEN None
                           ELSE GetLoop(b, child_bytes.val,
                                        Slice(remaining_path, 1, Len(remaining_path)))
             ELSE None)

\* MPTBuilder::get
get(b, key) ==
    IF ~IsSome(b.root) THEN None
    ELSE GetLoop(b, b.root[1], to_nibbles(key))

RECURSIVE ProofLoop(_, _, _, _)
\* the loop of MPTBuilder::get_proof; proof is the vector collected so far
ProofLoop(b, current_hash, remaining_path, proof0) ==
    IF current_hash \notin DOMAIN b.nodes THEN None
    ELSE LET node_rlp == b.nodes[current_hash]
             proof == Append(proof0, node_rlp)
             items == decode_list(node_rlp)
         IN  IF items.panic THEN PanicOpt
             ELSE IF items.hang THEN WrappedOpt(HangOpt)
             ELSE OptOnOverflow(items.overflow,
             IF ~items.ok THEN None
             ELSE IF Len(items.val) = 2
             THEN LET path_bytes == decode_bytes(items.val[1])
                  IN  IF ~path_bytes.ok THEN None
                      ELSE LET dp == decode_path(path_bytes.val)
                               path == dp[1]
                           IN  IF dp[2] THEN Some(proof)
                               ELSE IF ~StartsWith(remaining_path, path) THEN None
                               ELSE LET child_bytes == decode_bytes(items.val[2])
                                    IN  IF ~child_bytes.ok THEN None
                                        ELSE IF Len(child_bytes.val) # 32 THEN None
                                        ELSE ProofLoop(b, child_bytes.val,
                                                 Slice(remaining_path, Len(path),
                                                       Len(remaining_path)),
                                                 proof)
             ELSE IF Len(items.val) = 17
             THEN IF Len(remaining_path) = 0 THEN Some(proof)
                  ELSE LET idx == remaining_path[1]
                           child_bytes == decode_bytes(items.val[idx + 1])
                       IN  IF ~child_bytes.ok THEN None
                           ELSE IF Len(child_bytes.val) = 0 THEN None
                           ELSE IF Len(child_bytes.val) # 32 THEN None
                           ELSE ProofLoop(b, child_bytes.val,
                                          Slice(remaining_path, 1, Len(remaining_path)),
                                          proof)
             ELSE None)

\* MPTBuilder::get_proof
get_proof(b, key) ==
    IF ~IsSome(b.root) THEN None
    ELSE ProofLoop(b, b.root[1], to_nibbles(key), << >>)

\* ------------------------------------------------------------------------
\* mpt.rs
\* ------------------------------------------------------------------------

\* let mut hash = [0u8; 32]; hash[..n.len()].copy_from_slice(n)
PadTo32(bytes) == bytes \o Zeros(32 - Len(bytes))

\* the digest verify_proof computes for proof element i > 0
NodeHash(node_rlp) ==
    IF Len(node_rlp) < 32 THEN PadTo32(node_rlp) ELSE keccak256(node_rlp)

\* expected_hash after reading a child reference of next_node bytes;
\* << >> when the reference is longer than 32 bytes (return false)
NextExpected(next_node) ==
    IF Len(next_node) = 32 THEN Some(next_node)
    ELSE IF Len(next_node) < 32 THEN Some(PadTo32(next_node))
    ELSE None

\* if i > 0 { if node_hash != expected_hash { return false } }
HashChecked(i, node_rlp, expected_hash) ==
    i > 0 => NodeHash(node_rlp) = expected_hash

\* return value == expected_value, at a leaf or at a branch
ValueMatch(value, expected_value) ==
    IF value = expected_value THEN "true" ELSE "false"

\* LeafInPlace without the test of the position: a leaf is accepted
\* wherever it stands in the proof
LeafInPlaceAnywhere(i, proof, path, remaining) == path = remaining

\* verify_proof at a leaf: if i != proof.len() - 1 { return false } and
\* if path != remaining { return false }
LeafInPlace(i, proof, path, remaining) ==
    /\ i = Len(proof) - 1
    /\ path = remaining

\* The outcome r of the build without overflow checks, reached after an
\* addition that wrapped when o: the build with overflow checks panics on
\* that addition.
OnOverflow(o, r) ==
    IF ~o THEN r
    ELSE IF r = "true" THEN "panic_or_true"
    ELSE IF r = "false" THEN "panic_or_false"
    ELSE IF r = "hang" THEN "panic_or_hang"
    ELSE r

\* the outcomes of a call over the two builds
BuildOutcomes(r) ==
    IF r = "panic_or_true" THEN { "panic", "true" }
    ELSE IF r = "panic_or_false" THEN { "panic", "false" }
    ELSE IF r = "panic_or_hang" THEN { "panic", "hang" }
    ELSE { r }

\* return value == expected_value on a decoded value, return false on Err
ValueOutcome(value, expected_value) ==
    IF value.panic THEN "panic"
    ELSE IF ~value.ok THEN "false"
    ELSE ValueMatch(value.val, expected_value)

RECURSIVE VerifyLoop(_, _, _, _, _, _)
\* the for (i, node_rlp) loop of verify_proof, from 0-based position i;
\* the outcome is "true", "false", "panic" or "hang" when the two builds
\* agree, and "panic_or_true", "panic_or_false" or "panic_or_hang" when the
\* build with overflow checks panics and the other goes on
VerifyLoop(proof, i, nibbles, nibble_idx, expected_hash, expected_value) ==
    IF i >= Len(proof) THEN "false"
    ELSE LET node_rlp == proof[i + 1]
             decoded == decode_list(node_rlp)
         IN  IF ~HashChecked(i, node_rlp, expected_hash) THEN "false"
             ELSE IF decoded.panic THEN "panic"
             ELSE IF decoded.hang THEN OnOverflow(decoded.overflow, "hang")
             ELSE IF ~decoded.ok THEN OnOverflow(decoded.overflow, "false")
             ELSE OnOverflow(decoded.overflow,
             IF Len(decoded.val) = 2
             THEN LET path_encoded == decode_bytes(decoded.val[1])
                  IN  IF path_encoded.panic THEN "panic"
                      ELSE IF ~path_encoded.ok THEN "false"
                      ELSE LET dp == decode_path(path_encoded.val)
                               path == dp[1]
                           IN  IF dp[2]
                               THEN IF ~LeafInPlace(i, proof, path,
                                            Slice(nibbles, nibble_idx, Len(nibbles)))
                                    THEN "false"
                                    ELSE ValueOutcome(decode_bytes(decoded.val[2]),
                                                      expected_value)
                               ELSE IF nibble_idx + Len(path) > Len(nibbles) THEN "false"
                               ELSE IF path # Slice(nibbles, nibble_idx, nibble_idx + Len(path))
                               THEN "false"
                               ELSE LET next_node == decode_bytes(decoded.val[2])
                                    IN  IF next_node.panic THEN "panic"
                                        ELSE IF ~next_node.ok THEN "false"
                                        ELSE IF ~IsSome(NextExpected(next_node.val))
                                        THEN "false"
                                        ELSE VerifyLoop(proof, i + 1, nibbles,
                                                 nibble_idx + Len(path),
                                                 NextExpected(next_node.val)[1],
                                                 expected_value)
             ELSE IF Len(decoded.val) = 17
             THEN IF nibble_idx > Len(nibbles) THEN "false"
                  ELSE IF nibble_idx = Len(nibbles)
                  THEN ValueOutcome(decode_bytes(decoded.val[17]), expected_value)
                  ELSE LET nibble == nibbles[nibble_idx + 1]
                           child == decoded.val[nibble + 1]
                           d == decode_bytes(child)
                           next_node == IF d.ok THEN Some(d.val)
                                        ELSE IF Len(child) = 32 THEN Some(child)
                                        ELSE None
                       IN  IF nibble >= 16 THEN "false"
                           ELSE IF Len(child) = 0 \/ child = << 128 >> THEN "false"
                           ELSE IF d.panic THEN "panic"
                           ELSE IF ~IsSome(next_node) THEN "false"
                           ELSE IF ~IsSome(NextExpected(next_node[1])) THEN "false"
                           ELSE VerifyLoop(proof, i + 1, nibbles, nibble_idx + 1,
                                           NextExpected(next_node[1])[1],
                                           expected_value)
             ELSE "false")

\* verify_proof without the rejection of the empty proof
verify_proof_EmptyAccepted(root, key, expected_value, proof) ==
    IF Len(proof) = 0 THEN "true"
    ELSE VerifyLoop(proof, 0, to_nibbles(key), 0, root, expected_value)

verify_proof(root, key, expected_value, proof) ==
    IF Len(proof) = 0 THEN "false"
    ELSE VerifyLoop(proof, 0, to_nibbles(key), 0, root, expected_value)

\* ------------------------------------------------------------------------
\* The builder as a state machine driven by insert calls, and verify_proof
\* applied to a call drawn from a bounded set of inputs
\* ------------------------------------------------------------------------

\* Keys of the model: the empty key, two one-byte keys sharing their first
\* nibble (0x11, 0x12) and a two-byte key extending the first (0x1111).
Keys == { << >>, << 17 >>, << 18 >>, << 17, 17 >> }

\* A value long enough for every node that carries it to serialize to at
\* least 32 bytes.
LongValue == [i \in 1..32 |-> 170]

\* Values of the model: the empty value and a 32-byte value.
Values == { << >>, LongValue }

\* Keys and values of the longer runs
DeepKeys == Keys \ { << >> }

\* a single byte below 0x80 and the 32-byte value
DeepValues == { << 7 >>, LongValue }

\* Bytes of the node bodies handed to verify_proof directly: list headers
\* (0xc1, 0xc2, 0xf8), string headers (0x80, 0x81, 0xb8) and a plain byte
BodyBytes == { 193, 194, 248, 128, 129, 184, 5 }

RECURSIVE BodiesOfLen(_)
BodiesOfLen(n) ==
    IF n = 0 THEN { << >> }
    ELSE { Append(body, byte) : body \in BodiesOfLen(n - 1), byte \in BodyBytes }

\* Node bodies whose length fields make an addition of decode_list wrap:
\* a long list of 2^64 - 1 bytes, and a long string of 2^64 - 1 bytes as
\* the only item and as the second item of a list
WrapBodies ==
    { [i \in 1..9 |-> 255],
      << 200, 191 >> \o [i \in 1..8 |-> 255],
      << 202, 32, 191 >> \o [i \in 1..8 |-> 255] }

Bodies == UNION { BodiesOfLen(n) : n \in 0..MaxBodyLen } \cup WrapBodies

\* verify_proof calls on one-element proofs
VerifyCalls ==
    { [root |-> Zeros(32), key |-> << 17 >>, value |-> << 5 >>, proof |-> << body >>] :
        body \in Bodies }

NoCall == [root |-> Zeros(32), key |-> << >>, value |-> << >>, proof |-> << >>]

VARIABLES
    nodes,       \* MPTBuilder.nodes
    node_cache,  \* MPTBuilder.node_cache
    root,        \* MPTBuilder.root
    panicked,    \* an insert call did not return; the builder is no longer used
    ret,         \* Option: the digest the last insert call returned
    log,         \* the <<key, value>> pairs of the insert calls that returned
    call,        \* the arguments of a verify_proof call
    outcome,     \* "none" before the call; then "true", "false", "panic" or "hang"
    input,       \* Option: the argument of a codec round trip
    output       \* Option: what the round trip returned

vars == << nodes, node_cache, root, panicked, ret, log, call, outcome, input, output >>

\* the builder value held in the variables
Builder == [nodes |-> nodes, node_cache |-> node_cache, root |-> root]

InitBuilder ==
    /\ nodes = new.nodes
    /\ node_cache = new.node_cache
    /\ root = new.root
    /\ panicked = FALSE
    /\ ret = None
    /\ log = << >>

\* no codec round trip is under way
NoRoundTrip ==
    /\ input = None
    /\ output = None

Init ==
    /\ InitBuilder
    /\ call = NoCall
    /\ outcome = "none"
    /\ NoRoundTrip

\* the ends of an insert call over the two builds
BuildResults(r) ==
    IF IsSome(r.checked)
    THEN { [b |-> r.checked[1], hash |-> << >>, panic |-> TRUE, hang |-> FALSE,
            checked |-> None],
           [r EXCEPT !.checked = None] }
    ELSE { r }

\* builder.insert(key, value)
Insert(key, value) ==
    /\ ~panicked
    /\ \E r \in BuildResults(insert(Builder, key, value)) :
           /\ nodes' = r.b.nodes
           /\ node_cache' = r.b.node_cache
           /\ root' = r.b.root
           /\ panicked' = (r.panic \/ r.hang)
           /\ ret' = IF r.panic \/ r.hang THEN None ELSE Some(r.hash)
           /\ log' = IF r.panic \/ r.hang THEN log ELSE Append(log, << key, value >>)
    /\ UNCHANGED << call, outcome, input, output >>

Next ==
    /\ Len(log) < MaxInserts
    /\ \E key \in Keys, value \in Values : Insert(key, value)

Spec == Init /\ [][Next]_vars

\* longer runs over fewer keys and values
NextDeep ==
    /\ Len(log) < MaxDeepInserts
    /\ \E key \in DeepKeys, value \in DeepValues : Insert(key, value)

SpecDeep == Init /\ [][NextDeep]_vars

\* verify_proof(&call.root, &call.key, &call.value, &call.proof)
Verify ==
    /\ outcome = "none"
    /\ outcome' \in BuildOutcomes(
                       verify_proof(call.root, call.key, call.value, call.proof))
    /\ UNCHANGED << nodes, node_cache, root, panicked, ret, log, call, input, output >>

InitVerify ==
    /\ InitBuilder
    /\ call \in VerifyCalls
    /\ outcome = "none"
    /\ NoRoundTrip

NextVerify == Verify

SpecVerify == InitVerify /\ [][NextVerify]_vars

\* ------------------------------------------------------------------------
\* Facts of the run read off the log
\* ------------------------------------------------------------------------

\* keys some returned insert call wrote
Written == { log[i][1] : i \in 1..Len(log) }

\* the value of the last returned insert call on key
LastValue(key) ==
    log[CHOOSE i \in 1..Len(log) :
            /\ log[i][1] = key
            /\ \A j \in (i + 1)..Len(log) : log[j][1] # key][2]

\* every key of the log is written once
UniqueKeys == \A i, j \in 1..Len(log) : i # j => log[i][1] # log[j][1]

RECURSIVE Build(_)
\* MPTBuilder::new() followed by insert of every pair of seq in order:
\* [b |-> the builder, panic |-> some insert did not return in some build]
Build(seq) ==
    IF Len(seq) = 0 THEN [b |-> new, panic |-> FALSE]
    ELSE LET prev == Build(SubSeq(seq, 1, Len(seq) - 1))
         IN  IF prev.panic THEN prev
             ELSE LET r == insert(prev.b, seq[Len(seq)][1], seq[Len(seq)][2])
                  IN  [b |-> r.b, panic |-> r.panic \/ r.hang \/ IsSome(r.checked)]

\* the orders in which the pairs of seq can be inserted
Orders(seq) ==
    { [i \in 1..Len(seq) |-> seq[p[i]]] :
        p \in { q \in [1..Len(seq) -> 1..Len(seq)] :
                  \A i, j \in 1..Len(seq) : i # j => q[i] # q[j] } }

RECURSIVE FinalOf(_, _)
\* the pairs of s that no later pair of s overwrites, in order
FinalOf(s, i) ==
    IF i > Len(s) THEN << >>
    ELSE IF \E j \in (i + 1)..Len(s) : s[j][1] = s[i][1]
         THEN FinalOf(s, i + 1)
         ELSE << s[i] >> \o FinalOf(s, i + 1)

FinalWrites == FinalOf(log, 1)

\* the proof get_proof returns for key in the current builder (an Option)
ProofOf(key) == get_proof(Builder, key)

\* s without its element at position j
RemoveAt(s, j) == SubSeq(s, 1, j - 1) \o SubSeq(s, j + 1, Len(s))

\* ------------------------------------------------------------------------
\* Inputs of the properties
\* ------------------------------------------------------------------------

\* keys looked up: the keys of the runs and keys no run inserts (0x21,
\* 0x1112, 0x111111)
ProbeKeys == Keys \cup { << 33 >>, << 17, 18 >>, << 17, 17, 17 >> }

\* expected values handed to verify_proof
TamperValues ==
    Values \cup { << 7 >>, [LongValue EXCEPT ![32] = 171], SubSeq(LongValue, 1, 31) }

\* r with the lowest bit of byte i flipped
FlipBit(r, i) == [r EXCEPT ![i] = IF r[i] % 2 = 0 THEN r[i] + 1 ELSE r[i] - 1]

\* roots differing from r
TamperedRoots(r) == { Zeros(32), FlipBit(r, 1), FlipBit(r, 32) }

\* verify_proof(root(), key, value, proof) in the current builder
Verifies(key, value, proof) ==
    verify_proof(root[1], key, value, proof) = "true"

\* the last returned insert call and the key it wrote
LastKey == log[Len(log)][1]

LastVal == log[Len(log)][2]

\* the last insert call wrote a key that an earlier call had written
Rewrote ==
    /\ Len(log) >= 2
    /\ \E i \in 1..(Len(log) - 1) : log[i][1] = LastKey

\* proofs handed to the verifier: the one get_proof returns for key, and
\* that proof followed by its own first element once more
CandidateProofs(key) ==
    IF IsSome(ProofOf(key))
    THEN { ProofOf(key)[1], Append(ProofOf(key)[1], ProofOf(key)[1][1]) }
    ELSE { }

\* every way of removing one element of proof is rejected
TruncationsRejected(key, value, proof) ==
    \A j \in 1..Len(proof) : ~Verifies(key, value, RemoveAt(proof, j))

\* ------------------------------------------------------------------------
\* Properties
\* ------------------------------------------------------------------------

\* C1: proof soundness: for every key whose last inserted value is v,
\* get_proof returns a proof and verify_proof(root(), k, v, proof) is true,
\* also when a later proof node serializes to fewer than 32 bytes.
C1_ProofSoundness ==
    \A k \in Written :
        /\ IsSome(ProofOf(k))
        /\ Verifies(k, LastValue(k), ProofOf(k)[1])

\* C2: round trip: after inserting pairs with distinct keys into a fresh
\* builder, get(k) returns Some(V[k]) for every inserted key.
C2_RoundTrip ==
    UniqueKeys => \A k \in Written : get(Builder, k) = Some(LastValue(k))

\* C3: get returns None for every key that no insert call wrote, in the
\* fresh builder too.
C3_AbsentKeys ==
    \A k \in ProbeKeys \ Written : get(Builder, k) = None

\* C3 witness: 0x11 was never inserted while 0x1111 and 0x12 were, so the
\* lookup of 0x11 walks into the trie and comes back empty.
C3_Witness ==
    /\ << 17 >> \notin Written
    /\ << 17, 17 >> \in Written
    /\ << 18 >> \in Written
    /\ ~panicked
    /\ get(Builder, << 17 >>) = None
    /\ get(Builder, << 17, 18 >>) = None

\* C4: order independence: every order of inserting pairs with unique keys
\* into a fresh builder yields the root this run reached.
C4_OrderIndependence ==
    UniqueKeys =>
        \A o \in Orders(log) : ~Build(o).panic /\ Build(o).b.root = root

\* C5 as stated: after insert(k, v1), inserts of other keys and
\* insert(k, v2), get(k) returns Some(v2).
C5_LastWriteWins ==
    Rewrote => get(Builder, LastKey) = Some(LastVal)

\* C5 as amended: after insert(k, v1), inserts of other keys and
\* insert(k, v2) with v2 not empty, get(k) returns Some(v2).
C5_LastWriteWinsNonEmpty ==
    (Rewrote /\ LastVal # << >>) => get(Builder, LastKey) = Some(LastVal)

\* C5 witness: a key written before, with another value, among other keys,
\* now reads its new value.
C5_Witness ==
    /\ Rewrote
    /\ LastVal # << >>
    /\ \E i \in 1..(Len(log) - 1) : log[i][1] = LastKey /\ log[i][2] # LastVal
    /\ Len(FinalWrites) >= 2
    /\ get(Builder, LastKey) = Some(LastVal)

\* C6: the root after a run that writes some key more than once is the root
\* of a fresh builder fed only the final writes (in some order: the claim
\* names none).
C6_RootOfFinalWrites ==
    ~UniqueKeys =>
        \E o \in Orders(FinalWrites) : ~Build(o).panic /\ Build(o).b.root = root

\* C7: a proof that verifies against the root is rejected against every
\* other root.
C7_RootTamper ==
    \A k \in Written :
        (IsSome(ProofOf(k)) /\ Verifies(k, LastValue(k), ProofOf(k)[1])) =>
            \A r2 \in TamperedRoots(root[1]) \ { root[1] } :
                verify_proof(r2, k, LastValue(k), ProofOf(k)[1]) = "false"

\* Runs that write a value where a later branch hides it: 0x11 and 0x1111
\* make an Extension over two nibbles, 0x12 splits it with one nibble left,
\* 0x1211 and 0x1221 grow a branch at the nibbles of 0x12.
TamperKeys == { << 17 >>, << 17, 17 >>, << 18 >>, << 18, 17 >>, << 18, 33 >> }

MaxTamperInserts == 5

\* every key is written once, with the 32-byte value
NextTamper ==
    /\ Len(log) < MaxTamperInserts
    /\ \E key \in TamperKeys \ Written : Insert(key, LongValue)

SpecTamper == Init /\ [][NextTamper]_vars

\* C8: for a key stored with value v and the proof get_proof returns for it,
\* verify_proof is false for every expected value other than v.
C8_ValueTamper ==
    \A k \in Written :
        LET proof == ProofOf(k)
        IN  IsSome(proof) =>
                \A v2 \in TamperValues \ { LastValue(k) } :
                    verify_proof(root[1], k, v2, proof[1]) = "false"

\* C9 as stated: removing any one element of a proof that verifies yields a
\* sequence that verify_proof rejects.
C9_Truncation ==
    \A k \in Written : \A p \in CandidateProofs(k) :
        Verifies(k, LastValue(k), p) => TruncationsRejected(k, LastValue(k), p)

\* C9 as amended: removing any one element of a proof that get_proof
\* returned and that verifies yields a sequence that verify_proof rejects;
\* the empty proof is rejected.
C9_TruncationOfBuilderProof ==
    \A k \in Written :
        LET proof == ProofOf(k)
        IN  (IsSome(proof) /\ Verifies(k, LastValue(k), proof[1])) =>
                TruncationsRejected(k, LastValue(k), proof[1])

\* C9 witness: one key has a verifying proof of one node (its truncation is
\* the empty proof), another a verifying proof of three nodes.
C9_Witness ==
    /\ \E k \in Written :
        /\ IsSome(ProofOf(k))
        /\ Len(ProofOf(k)[1]) >= 3
        /\ Verifies(k, LastValue(k), ProofOf(k)[1])
        /\ TruncationsRejected(k, LastValue(k), ProofOf(k)[1])
    /\ \E k \in Written :
        /\ IsSome(ProofOf(k))
        /\ Len(ProofOf(k)[1]) = 1
        /\ Verifies(k, LastValue(k), ProofOf(k)[1])

\* C10: verify_proof returns false on every malformed proof; it never
\* panics.
C10_ErrorToFalse ==
    outcome \in { "none", "false" }

\* C11: get_proof(k) returns a proof exactly when get(k) returns a value:
\* a proof only at a leaf whose path equals the remaining nibbles or at a
\* branch holding a value when the path is exhausted there.
C11_ProofIffGet ==
    \A k \in ProbeKeys : IsSome(ProofOf(k)) <=> IsSome(get(Builder, k))

\* ------------------------------------------------------------------------
\* verify_proof applied to two-element proofs whose parent refers to its
\* child in a chosen form
\* ------------------------------------------------------------------------

\* values of the child leaf: short ones and the 32-byte value
EmbedValues == { << >>, << 5 >>, << 7 >>, << 5, 7 >>, LongValue }

\* the forms of a child reference: the child body itself as an item of the
\* parent's list, the body wrapped as a byte string, the body's digest
\* wrapped as a byte string
Forms == { "inline", "wrapped", "digest" }

\* the serialized leaf below the parent: path nibble 1, value v
ChildLeaf(v) == LeafRlp(<< 1 >>, v)

\* the item of the parent that refers to the child body
ChildRef(form, body) ==
    IF form = "inline" THEN body
    ELSE IF form = "wrapped" THEN encode_bytes(body)
    ELSE encode_bytes(keccak256(body))

\* a branch body whose slot 1 holds ref, all other slots and the value empty
ParentBranch(ref) ==
    encode_list([j \in 1..17 |-> IF j = 2 THEN ref ELSE encode_bytes(<< >>)])

\* an extension body with path nibble 1 whose child item is ref
ParentExtension(ref) ==
    encode_list(<< encode_bytes(encode_path(<< 1 >>, FALSE)), ref >>)

\* verify_proof(keccak256(parent), [0x11], expected, [parent, body])
EmbeddedCall(parent, body, expected) ==
    [root |-> keccak256(parent), key |-> << 17 >>, value |-> expected,
     proof |-> << parent, body >>]

\* a call on a branch parent: child of value v referred to in form f,
\* expected value e
BranchCall(f, v, e) ==
    EmbeddedCall(ParentBranch(ChildRef(f, ChildLeaf(v))), ChildLeaf(v), e)

\* the same on an extension parent
ExtensionCall(f, v, e) ==
    EmbeddedCall(ParentExtension(ChildRef(f, ChildLeaf(v))), ChildLeaf(v), e)

EmbeddedCalls ==
    { BranchCall(f, v, e) : f \in Forms, v \in EmbedValues, e \in EmbedValues }
    \cup { ExtensionCall(f, v, e) : f \in Forms, v \in EmbedValues, e \in EmbedValues }

\* branch bodies with an empty value slot (the byte 0x80): no child at all,
\* or one child by digest
EmptyValueBranches ==
    { ParentBranch(encode_bytes(<< >>)) }
    \cup { ParentBranch(ChildRef("digest", ChildLeaf(v))) : v \in EmbedValues }

\* verify_proof(keccak256(branch), [], e, [branch]): the empty key is
\* exhausted at the branch
EmptySlotCalls ==
    { [root |-> keccak256(b), key |-> << >>, value |-> e, proof |-> << b >>] :
        b \in EmptyValueBranches, e \in EmbedValues }

InitEmbedded ==
    /\ InitBuilder
    /\ call \in EmbeddedCalls \cup EmptySlotCalls
    /\ outcome = "none"
    /\ NoRoundTrip

NextEmbedded == Verify

SpecEmbedded == InitEmbedded /\ [][NextEmbedded]_vars

\* child values whose leaf serializes to fewer than 32 bytes
ShortValues == { v \in EmbedValues : Len(ChildLeaf(v)) < 32 }

\* calls the embedded-node rule accepts: a short child inline, expected
\* value the child's
InlineCalls ==
    { BranchCall("inline", v, v) : v \in ShortValues }
    \cup { ExtensionCall("inline", v, v) : v \in ShortValues }

\* calls the digest rule accepts: a child of 32 bytes or more by digest
DigestCalls ==
    { BranchCall("digest", v, v) : v \in EmbedValues \ ShortValues }
    \cup { ExtensionCall("digest", v, v) : v \in EmbedValues \ ShortValues }

\* C12: verify_proof accepts a child reference in either form, a 32-byte
\* digest or an inline body shorter than 32 bytes followed by that body as
\* the next proof element.
C12_EmbeddedAccepted ==
    (outcome # "none" /\ call \in InlineCalls \cup DigestCalls) => outcome = "true"

\* C13: when the key's path is exhausted at a branch whose value slot is
\* empty (0x80), verify_proof returns false for every expected value, the
\* empty one included.
C13_EmptySlotRejected ==
    (outcome # "none" /\ call \in EmptySlotCalls) => outcome = "false"

\* ------------------------------------------------------------------------
\* The codecs applied to inputs drawn from bounded sets
\* ------------------------------------------------------------------------

\* Longest nibble sequence of the path round trips
MaxNibbles == 3

\* nibbles of the path round trips: the extremes and two in between
PathNibbles == { 0, 1, 8, 15 }

RECURSIVE NibblesOfLen(_)
NibblesOfLen(n) ==
    IF n = 0 THEN { << >> }
    ELSE { Append(ns, x) : ns \in NibblesOfLen(n - 1), x \in PathNibbles }

\* (nibbles, is_leaf) arguments of encode_path
PathInputs ==
    { [nibbles |-> ns, is_leaf |-> f] :
        ns \in UNION { NibblesOfLen(n) : n \in 0..MaxNibbles }, f \in BOOLEAN }

InitPath ==
    /\ InitBuilder
    /\ call = NoCall
    /\ outcome = "none"
    /\ input \in { Some(i) : i \in PathInputs }
    /\ output = None

\* decode_path(&encode_path(&nibbles, is_leaf))
PathRoundTrip ==
    /\ output = None
    /\ output' = Some(decode_path(encode_path(input[1].nibbles, input[1].is_leaf)))
    /\ UNCHANGED << nodes, node_cache, root, panicked, ret, log, call, outcome, input >>

NextPath == PathRoundTrip

SpecPath == InitPath /\ [][NextPath]_vars

\* C14: compact path round trip: decode_path(encode_path(ns, is_leaf)) is
\* (ns, is_leaf) for every nibble sequence, odd lengths and the empty one
\* included, and both flags.
C14_PathRoundTrip ==
    IsSome(output) => output[1] = << input[1].nibbles, input[1].is_leaf >>

\* C14 witness: an odd-length leaf path came back from the round trip.
C14_Witness ==
    /\ IsSome(output)
    /\ Len(input[1].nibbles) = 3
    /\ input[1].is_leaf
    /\ output[1] = << input[1].nibbles, TRUE >>

\* Longest of the short byte strings of the wire round trips
MaxShortLen == 2

\* bytes of the wire round trips: both sides of 0x80 and the extremes
WireBytes == { 0, 1, 127, 128, 255 }

RECURSIVE StringsOfLen(_)
StringsOfLen(n) ==
    IF n = 0 THEN { << >> }
    ELSE { Append(x, byte) : x \in StringsOfLen(n - 1), byte \in WireBytes }

\* lengths around the short/long boundary (55, 56) and around the one-byte /
\* two-byte length field boundary (255, 256)
LongLens == { 55, 56, 57, 255, 256, 257 }

\* byte strings handed to encode_bytes
WireInputs ==
    UNION { StringsOfLen(n) : n \in 0..MaxShortLen }
    \cup { [i \in 1..n |-> byte] : n \in LongLens, byte \in WireBytes }

InitWire ==
    /\ InitBuilder
    /\ call = NoCall
    /\ outcome = "none"
    /\ input \in { Some(x) : x \in WireInputs }
    /\ output = None

\* decode_bytes(&encode_bytes(&x))
WireRoundTrip ==
    /\ output = None
    /\ output' = Some(decode_bytes(encode_bytes(input[1])))
    /\ UNCHANGED << nodes, node_cache, root, panicked, ret, log, call, outcome, input >>

NextWire == WireRoundTrip

SpecWire == InitWire /\ [][NextWire]_vars

\* C15: wire round trip: decode_bytes(encode_bytes(x)) is Ok(x) for every
\* byte string x: a single byte below 0x80, lengths 0..55, lengths from 56.
C15_WireRoundTrip ==
    IsSome(output) => output[1] = Ok(input[1])

\* C15 witness: a string of 256 bytes, whose length field takes two bytes,
\* came back from the round trip.
C15_Witness ==
    /\ IsSome(output)
    /\ Len(input[1]) = 256
    /\ encode_bytes(input[1])[1] = 185
    /\ output[1] = Ok(input[1])

\* C16: root ordering: root() is None before any insert; after each insert
\* root() is the digest that insert returned, the digest of a stored body
\* (the top-most node) of a trie that holds that call's pair and the pairs
\* of all prior calls.
C16_RootOrdering ==
    /\ (log = << >> /\ ~panicked) => root = None
    /\ (log # << >> /\ ~panicked) =>
          /\ IsSome(root)
          /\ root = ret
          /\ root[1] \in DOMAIN nodes
          /\ keccak256(nodes[root[1]]) = root[1]
          /\ \A k \in Written : get(Builder, k) = Some(LastValue(k))

\* ------------------------------------------------------------------------
\* Runs over keys that differ in their first nibble
\* ------------------------------------------------------------------------

\* Number of insert calls of the runs over WideKeys
MaxWideInserts == 3

\* the empty key and two keys that part at the root (0x10, 0x20)
WideKeys == { << >>, << 16 >>, << 32 >> }

\* the empty value and a one-byte value
WideValues == { << >>, << 7 >> }

NextWide ==
    /\ Len(log) < MaxWideInserts
    /\ \E key \in WideKeys, value \in WideValues : Insert(key, value)

SpecWide == Init /\ [][NextWide]_vars

\* the root before the last returned insert call
PreviousRoot == Build(SubSeq(log, 1, Len(log) - 1)).b.root

\* every entry of map m is an entry of map n
Kept(m, n) == \A h \in DOMAIN m : h \in DOMAIN n /\ n[h] = m[h]

\* decoded nodes a and b are the same node up to a branch value that is
\* absent in one and empty in the other
SameUpToEmptyValue(a, b) ==
    \/ a = b
    \/ /\ a.kind = "Branch"
       /\ b.kind = "Branch"
       /\ a.children = b.children
       /\ a.value \in { None, Some(<< >>) }
       /\ b.value \in { None, Some(<< >>) }

\* C17 as stated: the store and the decoded cache are additive: no step
\* removes an entry or changes the body or the decoded node recorded under
\* a digest.
C17_Additive ==
    [][Kept(nodes, nodes') /\ Kept(node_cache, node_cache')]_vars

\* C17 as amended: no step removes an entry of the store or the cache or
\* changes the body recorded under a digest; the decoded node recorded under
\* a digest changes at most between an absent and an empty branch value.
C17_AdditiveBodies ==
    [][/\ Kept(nodes, nodes')
       /\ \A h \in DOMAIN node_cache :
              /\ h \in DOMAIN node_cache'
              /\ SameUpToEmptyValue(node_cache[h], node_cache'[h])]_vars

\* C17 witness: the root of the previous call is no longer the root and its
\* body is still in the store and in the cache.
C17_Witness ==
    /\ Len(log) >= 2
    /\ ~panicked
    /\ PreviousRoot # root
    /\ PreviousRoot[1] \in DOMAIN nodes
    /\ PreviousRoot[1] \in DOMAIN node_cache
    /\ keccak256(nodes[PreviousRoot[1]]) = PreviousRoot[1]

\* ------------------------------------------------------------------------
\* Extension split.  The descent of insert_at from the root along the
\* nibbles of a key, up to the Extension it has to split.
\* ------------------------------------------------------------------------

\* the site o of a descent on whose way the build with overflow checks
\* panicked at the builder checked[1] when checked is Some
CheckedSite(o, checked) ==
    IF IsSome(o) /\ IsSome(checked) THEN Some([o[1] EXCEPT !.checked = checked]) ELSE o

RECURSIVE SplitSite(_, _, _)
\* Some([b, ext_path, child, path, common_len, checked]) when
\* insert_at(node_hash, path, _) reaches the split of an Extension
\* (common_len < ext_path.len()) in the build without overflow checks, None
\* when the insert ends anywhere else.  checked is None when the build with
\* overflow checks reaches the split as well, and Some(the builder at that
\* point) when it panics in a get_node on the way.
SplitSite(b, node_hash, path) ==
    IF ~IsSome(node_hash) THEN None
    ELSE LET g == get_node(b, node_hash[1])
         IN  IF g.panic \/ g.hang THEN None
             ELSE CheckedSite(
                  IF g.node.kind = "Extension"
                  THEN LET common_len == common_prefix_len(g.node.path, path)
                       IN  IF common_len = Len(g.node.path)
                           THEN SplitSite(g.b, Some(g.node.child),
                                          Slice(path, common_len, Len(path)))
                           ELSE Some([b |-> g.b, ext_path |-> g.node.path,
                                      child |-> g.node.child, path |-> path,
                                      common_len |-> common_len, checked |-> None])
                  ELSE IF g.node.kind = "Branch" /\ Len(path) > 0
                  THEN SplitSite(g.b, g.node.children[path[1]],
                                 Slice(path, 1, Len(path)))
                  ELSE None,
                  g.checked)

\* what the insert returns from a split site for value: the result of the
\* Extension arm, after the get_node calls of the descent
SplitResult(site, value) ==
    Checked(SplitExtension(site.b, site.ext_path, site.child, site.path, value,
                           site.common_len),
            site.checked)

\* the branch the split created: the node returned when common_len == 0,
\* else the child of the extension returned
SplitBranch(r, common_len) ==
    IF common_len = 0 THEN r.b.node_cache[r.hash]
    ELSE r.b.node_cache[r.b.node_cache[r.hash].child]

\* the rule for the new pair at a split: the value is in the value slot of
\* the branch exactly when no nibble of path is left after the common
\* prefix, and otherwise slot path[common_len] holds a new leaf with the
\* nibbles after it
SplitRule(site, value) ==
    /\ ~SplitResult(site, value).panic
    /\ ~IsSome(SplitResult(site, value).checked)
    /\ \E branch \in { SplitBranch(SplitResult(site, value), site.common_len) } :
           /\ branch.kind = "Branch"
           /\ (branch.value = Some(value)) <=> (site.common_len = Len(site.path))
           /\ site.common_len < Len(site.path) =>
                  /\ IsSome(branch.children[site.path[site.common_len + 1]])
                  /\ SplitResult(site, value).b.node_cache[
                         branch.children[site.path[site.common_len + 1]][1]]
                       = Leaf(Slice(site.path, site.common_len + 1, Len(site.path)),
                              value)

\* C18: an insert of (P, V) that splits an Extension(EP, C) at common prefix
\* length k < |EP| returns a branch that has V in its value slot if and only
\* if k = |P|; otherwise slot P[k] of the branch holds a new leaf with path
\* P[k+1..] and value V, also when exactly one nibble of P remains.
C18_ExtensionSplit ==
    ~panicked =>
        \A key \in Keys, value \in Values :
            IsSome(SplitSite(Builder, root, to_nibbles(key))) =>
                SplitRule(SplitSite(Builder, root, to_nibbles(key))[1], value)

\* ------------------------------------------------------------------------
\* The nodes of the trie under the current root, as get_node returns them.
\* ------------------------------------------------------------------------

\* get_node(hash) on the current builder
NodeAt(hash) == get_node(Builder, hash).node

\* the digests a node refers to
ChildHashes(node) ==
    IF node.kind = "Extension" THEN { node.child }
    ELSE IF node.kind = "Branch"
    THEN { node.children[i][1] : i \in { j \in 0..15 : IsSome(node.children[j]) } }
    ELSE { }

RECURSIVE ReachFrom(_, _)
\* the digests reached from frontier through child references, seen included
ReachFrom(frontier, seen) ==
    IF frontier = { } THEN seen
    ELSE ReachFrom(
             UNION { ChildHashes(NodeAt(h)) : h \in frontier } \ (seen \cup frontier),
             seen \cup frontier)

\* the digests of the nodes reachable from self.root
Reachable == IF IsSome(root) THEN ReachFrom({ root[1] }, { }) ELSE { }

\* the Extension nodes reachable from self.root
ReachableExtensions == { h \in Reachable : NodeAt(h).kind = "Extension" }

\* Two-byte keys: the first two share three nibbles, the third leaves them
\* after one nibble, the fourth at the first nibble, so that Extensions are
\* split before their last nibble and come to lie under branches.
SplitKeys == { << 17, 17 >>, << 17, 18 >>, << 18, 17 >>, << 33, 17 >> }

SplitValues == { << 7 >> }

NextSplit ==
    /\ Len(log) < MaxDeepInserts
    /\ \E key \in SplitKeys, value \in SplitValues : Insert(key, value)

SpecSplit == Init /\ [][NextSplit]_vars

\* C19: in every builder state reachable by inserts, every Extension node
\* reachable from the root has a nonempty path and its child is never
\* another Extension.
C19_NoRedundantExtension ==
    \A h \in ReachableExtensions :
        /\ Len(NodeAt(h).path) > 0
        /\ NodeAt(NodeAt(h).child).kind # "Extension"

\* an insert split an Extension: the root is an Extension over a branch that
\* holds the moved rest of the old Extension
C19_Witness ==
    /\ ~panicked
    /\ IsSome(root)
    /\ NodeAt(root[1]).kind = "Extension"
    /\ NodeAt(NodeAt(root[1]).child).kind = "Branch"
    /\ \E h \in ReachableExtensions : h # root[1]

\* ------------------------------------------------------------------------
\* Branch bodies of the store.
\* ------------------------------------------------------------------------

\* the bodies of the store that decode to a list of seventeen items
BranchBodies ==
    { h \in DOMAIN nodes :
        /\ ~decode_list(nodes[h]).panic
        /\ decode_list(nodes[h]).ok
        /\ Len(decode_list(nodes[h]).val) = 17 }

\* the populated entries of a branch body: the items other than the encoding
\* of the empty byte string, among the sixteen child slots and the value slot
Populated(body) ==
    { j \in 1..17 : decode_list(body).val[j] # encode_bytes(<< >>) }

\* no insert call that returned wrote an empty value
NoEmptyValue == \A i \in 1..Len(log) : log[i][2] # << >>

\* C20 as stated: in every builder state reachable by inserts, every Branch
\* body in the store has at least two populated entries among its sixteen
\* child slots and its value slot, an empty value slot counting as
\* unpopulated.
C20_BranchPopulated ==
    \A h \in BranchBodies : Cardinality(Populated(nodes[h])) >= 2

\* C20 as amended: the same in every builder state reached by inserts of
\* non-empty values.
C20_BranchPopulatedNonEmpty ==
    NoEmptyValue =>
        \A h \in BranchBodies : Cardinality(Populated(nodes[h])) >= 2

\* C20 witness: non-empty values only, and a leaf split left a branch body
\* with exactly two populated entries, one of them the value slot.
C20_Witness ==
    /\ NoEmptyValue
    /\ ~panicked
    /\ \E h \in BranchBodies :
           /\ Cardinality(Populated(nodes[h])) = 2
           /\ 17 \in Populated(nodes[h])

\* ------------------------------------------------------------------------
\* verify_proof on proofs that hold a leaf: alone, after a parent that
\* refers to it by digest, and followed by one more element.
\* ------------------------------------------------------------------------

LeafKeys == { << >>, << 17 >>, << 18 >>, << 33 >> }

\* paths of a leaf verified first, and of a leaf under a one-nibble parent
TopLeafPaths == { << >>, << 1, 1 >>, << 1, 2 >> }

SubLeafPaths == { << >>, << 1 >>, << 2 >> }

LeafValues == { << 5 >>, LongValue }

\* a leaf first in the proof: [parent, key, leaf_path, value, expected, extra]
TopLeafParams ==
    [parent : { "none" }, key : LeafKeys, leaf_path : TopLeafPaths,
     value : LeafValues, expected : LeafValues, extra : BOOLEAN]

\* a leaf second in the proof, under an extension or a branch that consumes
\* the nibble 1 and refers to the leaf by its digest
SubLeafParams ==
    [parent : { "extension", "branch" }, key : LeafKeys \ { << >> },
     leaf_path : SubLeafPaths, value : { LongValue }, expected : LeafValues,
     extra : BOOLEAN]

LeafParams == TopLeafParams \cup SubLeafParams

\* the elements of the proof before the extra one
LeafChain(p) ==
    IF p.parent = "none" THEN << LeafRlp(p.leaf_path, p.value) >>
    ELSE IF p.parent = "extension"
    THEN << ParentExtension(ChildRef("digest", LeafRlp(p.leaf_path, p.value))),
            LeafRlp(p.leaf_path, p.value) >>
    ELSE << ParentBranch(ChildRef("digest", LeafRlp(p.leaf_path, p.value))),
            LeafRlp(p.leaf_path, p.value) >>

\* verify_proof(keccak256(proof[0]), key, expected, proof); with extra the
\* leaf is followed by one more copy of itself
LeafCall(p) ==
    [root |-> keccak256(LeafChain(p)[1]), key |-> p.key, value |-> p.expected,
     proof |-> IF p.extra
               THEN Append(LeafChain(p), LeafRlp(p.leaf_path, p.value))
               ELSE LeafChain(p)]

LeafCalls == { LeafCall(p) : p \in LeafParams }

\* the nibbles of the key not consumed when the loop is at the leaf
RemainingAtLeaf(p) ==
    IF p.parent = "none" THEN to_nibbles(p.key)
    ELSE Slice(to_nibbles(p.key), 1, Len(to_nibbles(p.key)))

InitLeaf ==
    /\ InitBuilder
    /\ call \in LeafCalls
    /\ outcome = "none"
    /\ NoRoundTrip

NextLeaf == Verify

SpecLeaf == InitLeaf /\ [][NextLeaf]_vars

\* C21: in verify_proof a leaf yields true only if it is the last element of
\* the proof and its decoded path equals exactly the key nibbles not yet
\* consumed; a leaf at an earlier position, or with a different path, makes
\* verify_proof return false.
C21_LeafLastAndExact ==
    outcome # "none" =>
        \A p \in LeafParams :
            call = LeafCall(p) =>
                /\ outcome = "true" =>
                       (~p.extra /\ p.leaf_path = RemainingAtLeaf(p))
                /\ (p.extra \/ p.leaf_path # RemainingAtLeaf(p)) =>
                       outcome = "false"

\* C21 witness: a leaf under a parent, last in the proof and with the path
\* that remains of the key, was accepted.
C21_Witness ==
    /\ outcome = "true"
    /\ \E p \in SubLeafParams :
           /\ call = LeafCall(p)
           /\ ~p.extra
           /\ p.leaf_path = RemainingAtLeaf(p)

\* ------------------------------------------------------------------------
\* Keys that are prefixes of other keys.
\* ------------------------------------------------------------------------

\* two one-byte keys sharing their first nibble, each with a two-byte key
\* that extends it
PrefixKeys == { << 17 >>, << 17, 17 >>, << 18 >>, << 18, 17 >> }

NextPrefix ==
    /\ Len(log) < MaxDeepInserts
    /\ \E key \in PrefixKeys, value \in DeepValues : Insert(key, value)

SpecPrefix == Init /\ [][NextPrefix]_vars

\* the pairs (k1, k2) of inserted keys with k1 a proper prefix of k2
PrefixPairs ==
    { pair \in Written \X Written :
        pair[1] # pair[2] /\ StartsWith(pair[2], pair[1]) }

\* body is a branch body whose value slot holds value: decode_list returns
\* its 17 items, in the build with overflow checks as well (no addition
\* wraps)
BranchWithValue(body, value) ==
    /\ ~decode_list(body).panic
    /\ ~decode_list(body).overflow
    /\ decode_list(body).ok
    /\ Len(decode_list(body).val) = 17
    /\ decode_bytes(decode_list(body).val[17]) = Ok(value)

\* C22: for inserted keys k1 and k2 where k1 is a prefix of k2, get_proof
\* succeeds for both, the proof for k2 has at least as many nodes as the
\* proof for k1, and the proof for k1 ends at a branch whose value slot
\* holds k1's value.
C22_PrefixProofs ==
    \A pair \in PrefixPairs :
        /\ IsSome(ProofOf(pair[1])) /\ ~Panicked(ProofOf(pair[1]))
        /\ IsSome(ProofOf(pair[2])) /\ ~Panicked(ProofOf(pair[2]))
        /\ Len(ProofOf(pair[2])[1]) >= Len(ProofOf(pair[1])[1])
        /\ BranchWithValue(ProofOf(pair[1])[1][Len(ProofOf(pair[1])[1])],
                           LastValue(pair[1]))

\* ------------------------------------------------------------------------
\* The length of the walks of get and get_proof.
\* ------------------------------------------------------------------------

\* the child item of a branch or extension body names a node to load
ChildLoaded(item) ==
    /\ decode_bytes(item).ok
    /\ Len(decode_bytes(item).val) = 32

RECURSIVE Visited(_, _, _)
RECURSIVE VisitedBelowPath(_, _, _, _)
\* the walk from a loaded body on, items what decode_list made of it: the
\* build with overflow checks ends at this body when an addition wrapped
VisitedAt(b, items, remaining_path) ==
    (IF items.overflow THEN { 1 } ELSE { })
    \cup
    (IF items.panic \/ items.hang \/ ~items.ok THEN { 1 }
     ELSE IF Len(items.val) = 2
     THEN IF ~decode_bytes(items.val[1]).ok THEN { 1 }
          ELSE VisitedBelowPath(b, items.val[2],
                                decode_path(decode_bytes(items.val[1]).val),
                                remaining_path)
     ELSE IF Len(items.val) = 17
     THEN IF Len(remaining_path) = 0 THEN { 1 }
          ELSE IF ~ChildLoaded(items.val[remaining_path[1] + 1]) THEN { 1 }
          ELSE { 1 + n : n \in Visited(b,
                                  decode_bytes(items.val[remaining_path[1] + 1]).val,
                                  Slice(remaining_path, 1, Len(remaining_path))) }
     ELSE { 1 })

\* the numbers of bodies the loop of get and of get_proof loads from
\* current_hash on, one number for each way the walk ends over the build
\* with and the build without overflow checks: the two loops load the same
\* bodies and differ only in what they return at a leaf and at a branch
\* where the path ends
Visited(b, current_hash, remaining_path) ==
    IF current_hash \notin DOMAIN b.nodes THEN { 0 }
    ELSE VisitedAt(b, decode_list(b.nodes[current_hash]), remaining_path)

\* the walk at a two-item body with decoded path dp = (path, is_leaf) and
\* second item child
VisitedBelowPath(b, child, dp, remaining_path) ==
    IF dp[2] THEN { 1 }
    ELSE IF ~StartsWith(remaining_path, dp[1]) THEN { 1 }
    ELSE IF ~ChildLoaded(child) THEN { 1 }
    ELSE { 1 + n : n \in Visited(b, decode_bytes(child).val,
                                 Slice(remaining_path, Len(dp[1]),
                                       Len(remaining_path))) }

\* the bodies loaded by get(key), and by get_proof(key), in the builder
VisitedFor(key) ==
    IF IsSome(root) THEN Visited(Builder, root[1], to_nibbles(key)) ELSE { 0 }

\* keys looked up in the runs on SplitKeys: the keys of the runs, the empty
\* key, and keys that end inside or go beyond the paths of the runs
WalkKeys == SplitKeys \cup { << >>, << 17 >>, << 18 >>, << 17, 17, 17 >> }

\* C23: get and get_proof terminate for every key in every reachable builder
\* state, and the number of nodes visited (the length of a returned proof)
\* is at most 2*|key| + 1.
C23_WalkBound ==
    \A key \in WalkKeys :
        /\ ~Panicked(get(Builder, key))
        /\ ~Panicked(ProofOf(key))
        /\ \A n \in VisitedFor(key) : n <= 2 * Len(key) + 1
        /\ IsSome(ProofOf(key)) =>
               /\ VisitedFor(key) = { Len(ProofOf(key)[1]) }
               /\ Len(ProofOf(key)[1]) <= 2 * Len(key) + 1

\* C23 witness: the walk for a one-byte key loads three bodies (an
\* extension, a branch and the node under it), and a proof of three
\* bodies is returned for a two-byte key.
C23_Witness ==
    /\ ~panicked
    /\ VisitedFor(<< 17 >>) = { 3 }
    /\ \E key \in SplitKeys : IsSome(ProofOf(key)) /\ Len(ProofOf(key)[1]) >= 3

\* C24: insert is total: in every reachable builder state, for every key
\* (the empty key and a key whose nibbles end inside the path of an
\* extension included) and every value, insert returns a digest without
\* panicking.
C24_InsertTotal == ~panicked

\* the builder value after the step
BuilderAfter == [nodes |-> nodes', node_cache |-> node_cache', root |-> root']

\* the step is an insert call that returned, and key is not the key it wrote
OtherKeyOfInsert(key) ==
    /\ ~panicked'
    /\ Len(log') = Len(log) + 1
    /\ key # log'[Len(log')][1]

\* C25: insert(k, v) leaves the lookup of every other key unchanged: for
\* every key k' other than k, get(k') after the insert equals get(k')
\* before it, also when the stored value of k' is the empty byte string and
\* k' is a prefix of k.
C25_Frame ==
    [][\A key \in ProbeKeys :
           OtherKeyOfInsert(key) => get(BuilderAfter, key) = get(Builder, key)]_vars

\* expected values handed to verify_proof next to the proof of a key: the
\* values of the runs and the empty value
AgreeValues == DeepValues \cup { << >> }

\* C26: the lookup of the builder and the verifier agree: in every
\* reachable builder state, for every key k with get_proof(k) = Some(p) and
\* every value v, verify_proof(root, k, v, p) is true if and only if
\* get(k) = Some(v).
C26_GetVerifyAgree ==
    \A k \in ProbeKeys, v \in AgreeValues :
        (IsSome(ProofOf(k)) /\ ~Panicked(ProofOf(k))) =>
            (Verifies(k, v, ProofOf(k)[1]) <=> get(Builder, k) = Some(v))

\* ------------------------------------------------------------------------
\* The links of a proof and the child references of the stored bodies.
\* ------------------------------------------------------------------------

\* the items of a body that hold child references: the second item of an
\* extension, the populated child slots of a branch
ReferenceItems(body) ==
    IF decode_list(body).panic \/ ~decode_list(body).ok THEN { }
    ELSE IF Len(decode_list(body).val) = 17
    THEN { decode_list(body).val[j] :
             j \in { i \in 1..16 : decode_list(body).val[i] # encode_bytes(<< >>) } }
    ELSE IF /\ Len(decode_list(body).val) = 2
            /\ decode_bytes(decode_list(body).val[1]).ok
            /\ ~decode_path(decode_bytes(decode_list(body).val[1]).val)[2]
    THEN { decode_list(body).val[2] }
    ELSE { }

\* item holds the 32-byte reference to body
RefersTo(item, body) ==
    /\ decode_bytes(item).ok
    /\ Len(decode_bytes(item).val) = HashLen
    /\ decode_bytes(item).val = keccak256(body)

RECURSIVE Linked(_, _, _)
\* from element j of proof on, every element refers to the next one: an
\* extension in its child field, a branch in the slot of the next nibble of
\* remaining_path
Linked(proof, j, remaining_path) ==
    IF j >= Len(proof) THEN TRUE
    ELSE IF decode_list(proof[j]).panic \/ ~decode_list(proof[j]).ok THEN FALSE
    ELSE IF Len(decode_list(proof[j]).val) = 17
    THEN /\ Len(remaining_path) > 0
         /\ RefersTo(decode_list(proof[j]).val[remaining_path[1] + 1], proof[j + 1])
         /\ Linked(proof, j + 1, Slice(remaining_path, 1, Len(remaining_path)))
    ELSE IF Len(decode_list(proof[j]).val) = 2
    THEN /\ decode_bytes(decode_list(proof[j]).val[1]).ok
         /\ ~decode_path(decode_bytes(decode_list(proof[j]).val[1]).val)[2]
         /\ RefersTo(decode_list(proof[j]).val[2], proof[j + 1])
         /\ Linked(proof, j + 1,
                Slice(remaining_path,
                      Len(decode_path(decode_bytes(decode_list(proof[j]).val[1]).val)[1]),
                      Len(remaining_path)))
    ELSE FALSE

\* C27: every proof returned by get_proof is a hash-linked chain from the
\* root to the target: the digest of its first element is root(), the digest
\* of every later element is the 32-byte reference the preceding element
\* holds in its extension child field or in the branch slot of the key's
\* next nibble; and no stored body holds a child reference shorter than 32
\* bytes.
C27_HashLinked ==
    /\ \A key \in WalkKeys :
           (IsSome(ProofOf(key)) /\ ~Panicked(ProofOf(key))) =>
               /\ Len(ProofOf(key)[1]) >= 1
               /\ Some(keccak256(ProofOf(key)[1][1])) = root
               /\ Linked(ProofOf(key)[1], 1, to_nibbles(key))
    /\ \A h \in DOMAIN nodes :
           \A item \in ReferenceItems(nodes[h]) :
               /\ decode_bytes(item).ok
               /\ Len(decode_bytes(item).val) = HashLen

\* C27 witness: a proof of four elements (extension, branch, extension,
\* branch or leaf) was returned and the store holds a body shorter than 32
\* bytes, referred to like every other by its 32-byte digest.
C27_Witness ==
    /\ ~panicked
    /\ \E key \in WalkKeys :
           /\ IsSome(ProofOf(key))
           /\ Len(ProofOf(key)[1]) >= 4
    /\ \E h \in DOMAIN nodes : Len(nodes[h]) < HashLen

====
